---- MODULE Spec2Model ----
(***************************************************************************)
(* A model of IR-System-BE (FastAPI backend of a vector-space retrieval    *)
(* system): the retrieval router's inverted-file cache                     *)
(* (app/routers/retrieval.py), the retrieval service                       *)
(* (app/services/retrieval_service.py) and the evaluation utilities        *)
(* (app/utils/evaluation.py).                                              *)
(*                                                                         *)
(* Python values are modelled as follows.                                  *)
(*  - A dict is a sequence of <<key, value>> pairs with distinct keys, in  *)
(*    insertion order (Python dicts iterate in insertion order).           *)
(*  - None is the record None.  An object whose identity matters carries  *)
(*    an "oid" field, the handler whose request created it: objects with   *)
(*    different oids are different objects.                                *)
(*  - A float is kept exact: a rational is a pair <<num, den>>, and a      *)
(*    document weight, which holds logarithms, is kept as its factors.     *)
(*  - A raised exception is a record [kind |-> "raise", exc |-> name].     *)
(***************************************************************************)
EXTENDS Integers, Sequences, FiniteSets, TLC

VARIABLES
    docsFile,               \* what app/data/parsing/parsing_docs.json holds
    _cached_inverted_file,  \* retrieval.py:40  cached GET /inverted-file response
    _cache_key,             \* retrieval.py:41  key the cached response was built for
    _inverted_file_cache,   \* retrieval.py:44  index cache read by /retrieve
    pc,                     \* per GET /inverted-file handler: "idle" | "building"
    hreq,                   \* per handler: the query parameters of its request
    hdocs,                  \* per handler: the documents it loaded (json.load)
    joined,                 \* per handler: the handler whose in-flight build of
                            \*   the same key its request arrived during (0: none)
    resp,                   \* per handler: the response to its request, kept while
                            \*   a request that arrived during its build is in flight
    out,                    \* the response the last step sent, None if it sent none
    lastOp,                 \* the request the last step handled
    evalIn,                 \* evaluation.py: the arguments of the call
    evalOut,                \* evaluation.py: what the call produced
    batchIn,                \* retrieve_document_batch_query: its arguments
    batchPos,               \* ... index of the next query of list_query
    tuple_sim_ap,           \* ... retrieval_service.py:280
    batchSkipped,           \* ... query ids the loop passed over (line 282)
    batchOut,               \* ... what the call produced
    model,                  \* query_expansion_service.py:29  self.model
    _is_trained,            \* query_expansion_service.py:30  self._is_trained
    _current_preprocessing_config,  \* query_expansion_service.py:31-34
    qeOut,                  \* QueryExpansionService: the last call and its outcome
    callIn,                 \* RetrievalService function called on its own: arguments
    callOut                 \* ... what the call produced

cacheVars == <<docsFile, _cached_inverted_file, _cache_key, _inverted_file_cache,
               pc, hreq, hdocs, joined, resp, out, lastOp>>
evalVars  == <<evalIn, evalOut>>
batchVars == <<batchIn, batchPos, tuple_sim_ap, batchSkipped, batchOut>>
qeVars    == <<model, _is_trained, _current_preprocessing_config, qeOut>>
callVars  == <<callIn, callOut>>
vars      == <<cacheVars, evalVars, batchVars, qeVars, callVars>>

---------------------------------------------------------------------------
(* Bounds of the model.                                                    *)

MaxHandlers == 2    \* GET /inverted-file requests that can be in flight together
MaxLen      == 2    \* length of a ranked or relevant list given to evaluation.py
MaxBatch    == 2    \* queries in list_query of a batch retrieval

---------------------------------------------------------------------------
(* Python values.                                                          *)

None == [kind |-> "None"]
NoKey == "None"
Raise(e) == [kind |-> "raise", exc |-> e]
IsRaise(v) == v.kind = "raise"

\* dict helpers, on sequences of <<key, value>> pairs
HasKey(d, k) == \E i \in 1..Len(d) : d[i][1] = k
Get(d, k) == d[CHOOSE i \in 1..Len(d) : d[i][1] = k][2]
Put(d, k, v) ==
    IF HasKey(d, k)
    THEN [i \in 1..Len(d) |-> IF d[i][1] = k THEN <<k, v>> ELSE d[i]]
    ELSE Append(d, <<k, v>>)
KeysOf(d) == [i \in 1..Len(d) |-> d[i][1]]
ValuesOf(d) == [i \in 1..Len(d) |-> d[i][2]]
InList(x, s) == \E i \in 1..Len(s) : s[i] = x

RECURSIVE SumSeq(_)
SumSeq(s) == IF s = <<>> THEN 0 ELSE Head(s) + SumSeq(Tail(s))

RECURSIVE MaxSeq(_)
MaxSeq(s) ==
    IF Len(s) = 1 THEN s[1]
    ELSE LET m == MaxSeq(Tail(s)) IN IF s[1] >= m THEN s[1] ELSE m

---------------------------------------------------------------------------
(* Text preprocessing (app/utils/text_preprocessing.py).  A text is given  *)
(* as the token list nltk's word_tokenize makes of it; the stemmer and the *)
(* stopword list are nltk's, restricted to the vocabulary of the corpora   *)
(* below.                                                                  *)

stem_word(w) ==
    CASE w = "The"       -> "the"
      [] w = "systems"   -> "system"
      [] w = "retrieves" -> "retriev"
      [] w = "documents" -> "document"
      [] OTHER           -> w

Lower(w) == IF w = "The" THEN "the" ELSE w

get_stopwords == {"the"}

stem_tokens(tokens) == [i \in 1..Len(tokens) |-> stem_word(tokens[i])]

remove_stopwords(tokens) == SelectSeq(tokens, LAMBDA w : w \notin get_stopwords)

preprocess_text(text, use_stemming, use_stopword_removal) ==
    LET t1 == IF use_stemming THEN stem_tokens(text) ELSE text
        t2 == IF use_stopword_removal THEN remove_stopwords(t1) ELSE t1
    IN  [i \in 1..Len(t2) |-> Lower(t2[i])]

\* collections.Counter(tokens): token -> occurrences, in first-occurrence order
RECURSIVE CounterFrom(_, _)
CounterFrom(tokens, acc) ==
    IF tokens = <<>> THEN acc
    ELSE LET t == Head(tokens)
         IN  CounterFrom(Tail(tokens),
                 Put(acc, t, IF HasKey(acc, t) THEN Get(acc, t) + 1 ELSE 1))

Counter(tokens) == CounterFrom(tokens, <<>>)

---------------------------------------------------------------------------
(* Document-side weighting and the index builder                           *)
(* (app/services/retrieval_service.py).                                    *)

\* The float num/den + log2(a/b), kept exact.
Real(num, den, a, b) == [rat |-> <<num, den>>, log2 |-> <<a, b>>]
One == Real(1, 1, 1, 1)

\* weighting_method.get(name, False)
WmGet(wm, name) == IF name \in DOMAIN wm THEN wm[name] ELSE FALSE

\* freq_file.get(doc, {})
FreqOfDoc(freq_file, doc) == IF HasKey(freq_file, doc) THEN Get(freq_file, doc) ELSE <<>>

\* A document frequency that counts the documents holding the term twice or more
DocFrequencyOfRepeated(term, freq_file) ==
    Cardinality({i \in 1..Len(freq_file) :
                    HasKey(freq_file[i][2], term) /\ Get(freq_file[i][2], term) >= 2})

\* retrieval_service.py:128  documents whose counter holds the term
DocFrequency(term, freq_file) ==
    Cardinality({i \in 1..Len(freq_file) : HasKey(freq_file[i][2], term)})

\* A TF that tests tf_binary before tf_log
TfComponentBinaryFirst(wm, freq_in_doc, terms) ==
    IF WmGet(wm, "tf_raw") THEN Real(freq_in_doc, 1, 1, 1)
    ELSE IF WmGet(wm, "tf_binary") THEN Real(1, 1, 1, 1)
    ELSE IF WmGet(wm, "tf_log") THEN Real(1, 1, freq_in_doc, 1)
    ELSE IF WmGet(wm, "tf_augmented")
         THEN LET freqs_in_doc == ValuesOf(terms)
                  max_freq == IF freqs_in_doc # <<>> THEN MaxSeq(freqs_in_doc) ELSE 1
              IN  Real(max_freq + freq_in_doc, 2 * max_freq, 1, 1)
    ELSE Real(freq_in_doc, 1, 1, 1)

\* A TF whose default, with no tf_* flag set, is the binary one
TfComponentDefaultBinary(wm, freq_in_doc, terms) ==
    IF WmGet(wm, "tf_raw") THEN Real(freq_in_doc, 1, 1, 1)
    ELSE IF WmGet(wm, "tf_log") THEN Real(1, 1, freq_in_doc, 1)
    ELSE IF WmGet(wm, "tf_augmented")
         THEN LET freqs_in_doc == ValuesOf(terms)
                  max_freq == IF freqs_in_doc # <<>> THEN MaxSeq(freqs_in_doc) ELSE 1
              IN  Real(max_freq + freq_in_doc, 2 * max_freq, 1, 1)
    ELSE Real(1, 1, 1, 1)

\* retrieval_service.py:110-124  the TF variant, by the order of the elif chain
TfComponent(wm, freq_in_doc, terms) ==
    IF WmGet(wm, "tf_raw") THEN Real(freq_in_doc, 1, 1, 1)
    ELSE IF WmGet(wm, "tf_log") THEN Real(1, 1, freq_in_doc, 1)
    ELSE IF WmGet(wm, "tf_binary") THEN Real(1, 1, 1, 1)
    ELSE IF WmGet(wm, "tf_augmented")
         THEN LET freqs_in_doc == ValuesOf(terms)
                  max_freq == IF freqs_in_doc # <<>> THEN MaxSeq(freqs_in_doc) ELSE 1
              IN  Real(max_freq + freq_in_doc, 2 * max_freq, 1, 1)
    ELSE Real(freq_in_doc, 1, 1, 1)

\* A weight computed without the test of the frequency: with use_idf the
\* quotient N / df is taken whatever the frequency
calculate_tf_idf_unguarded(term, doc, freq_file, weighting_method) ==
    LET term_docs == FreqOfDoc(freq_file, doc)
        freq_in_doc == IF HasKey(term_docs, term) THEN Get(term_docs, term) ELSE 0
        N == Len(freq_file)
        df == DocFrequency(term, freq_file)
        doc_length == LET l == SumSeq(ValuesOf(term_docs)) IN IF l = 0 THEN 1 ELSE l
    IN  IF WmGet(weighting_method, "use_idf") /\ df = 0
        THEN Raise("ZeroDivisionError")
        ELSE [kind |-> "ok", term |-> term, doc |-> doc,
              weight |-> [kind |-> "float",
                          tf |-> TfComponent(weighting_method, freq_in_doc, term_docs),
                          idf |-> IF WmGet(weighting_method, "use_idf")
                                  THEN Real(0, 1, N, df) ELSE One,
                          normalization |->
                              IF WmGet(weighting_method, "use_normalization")
                              THEN Real(1, doc_length, 1, 1) ELSE One]]

\* retrieval_service.py:92-145
calculate_tf_idf(term, doc, freq_file, weighting_method) ==
    LET term_docs == FreqOfDoc(freq_file, doc)
        freq_in_doc == IF HasKey(term_docs, term) THEN Get(term_docs, term) ELSE 0
        N == Len(freq_file)
        df == DocFrequency(term, freq_file)
        doc_length == LET l == SumSeq(ValuesOf(term_docs)) IN IF l = 0 THEN 1 ELSE l
    IN  IF freq_in_doc = 0
        THEN [kind |-> "ok", term |-> term, doc |-> doc,
              weight |-> [kind |-> "int", value |-> 0]]
        ELSE IF WmGet(weighting_method, "use_idf") /\ df = 0
        THEN Raise("ZeroDivisionError")
        ELSE [kind |-> "ok", term |-> term, doc |-> doc,
              weight |-> [kind |-> "float",
                          tf |-> TfComponent(weighting_method, freq_in_doc, term_docs),
                          idf |-> IF WmGet(weighting_method, "use_idf")
                                  THEN Real(0, 1, N, df) ELSE One,
                          normalization |->
                              IF WmGet(weighting_method, "use_normalization")
                              THEN Real(1, doc_length, 1, 1) ELSE One]]

\* retrieval_service.py:59-65
RECURSIVE BuildFreqFile(_, _, _, _)
BuildFreqFile(items, use_stemming, use_stopword_removal, acc) ==
    IF items = <<>> THEN acc
    ELSE BuildFreqFile(Tail(items), use_stemming, use_stopword_removal,
             Put(acc, Head(items)[1],
                 Counter(preprocess_text(Head(items)[2], use_stemming,
                                         use_stopword_removal))))

\* An inner loop that leaves out the postings whose weight is 0
RECURSIVE WeighTokensPruned(_, _, _, _, _)
WeighTokensPruned(tokens, doc_key, freq_file, wm, inverted_file) ==
    IF tokens = <<>> \/ IsRaise(inverted_file) THEN inverted_file
    ELSE LET weight == calculate_tf_idf(Head(tokens), doc_key, freq_file, wm)
         IN  IF IsRaise(weight) THEN weight
             ELSE IF /\ weight.weight.kind = "float"
                     /\ weight.weight.idf.rat[1] = 0
                     /\ weight.weight.idf.log2[1] = weight.weight.idf.log2[2]
             THEN WeighTokensPruned(Tail(tokens), doc_key, freq_file, wm, inverted_file)
             ELSE LET postings == IF HasKey(inverted_file.items, weight.term)
                                  THEN Get(inverted_file.items, weight.term)
                                  ELSE <<>>
                  IN  WeighTokensPruned(Tail(tokens), doc_key, freq_file, wm,
                          [inverted_file EXCEPT !.items =
                              Put(@, weight.term,
                                  Put(postings, weight.doc, weight.weight))])

\* retrieval_service.py:70-72  the inner loop, over the tokens of one document
RECURSIVE WeighTokens(_, _, _, _, _)
WeighTokens(tokens, doc_key, freq_file, wm, inverted_file) ==
    IF tokens = <<>> \/ IsRaise(inverted_file) THEN inverted_file
    ELSE LET weight == calculate_tf_idf(Head(tokens), doc_key, freq_file, wm)
         IN  IF IsRaise(weight) THEN weight
             ELSE LET postings == IF HasKey(inverted_file.items, weight.term)
                                  THEN Get(inverted_file.items, weight.term)
                                  ELSE <<>>
                  IN  WeighTokens(Tail(tokens), doc_key, freq_file, wm,
                          [inverted_file EXCEPT !.items =
                              Put(@, weight.term,
                                  Put(postings, weight.doc, weight.weight))])

\* retrieval_service.py:69-72  the outer loop, over the documents
RECURSIVE WeighDocs(_, _, _, _)
WeighDocs(rest, freq_file, wm, inverted_file) ==
    IF rest = <<>> \/ IsRaise(inverted_file) THEN inverted_file
    ELSE WeighDocs(Tail(rest), freq_file, wm,
             WeighTokens(KeysOf(Head(rest)[2]), Head(rest)[1], freq_file, wm,
                         inverted_file))

\* documents is what json.load returned: a dict, or some other JSON value, on
\* which documents.items() raises.
\* retrieval_service.py:44-74
create_inverted_file(documents, use_stemming, use_stopword_removal, document_weighting_method) ==
    IF documents.kind # "dict" THEN Raise("AttributeError")
    ELSE LET freq_file == BuildFreqFile(documents.items, use_stemming,
                                        use_stopword_removal, <<>>)
         IN  WeighDocs(freq_file, freq_file, document_weighting_method,
                       [kind |-> "dict", items |-> <<>>])


---------------------------------------------------------------------------
(* Evaluation (app/utils/evaluation.py).  Python computes in floats; the   *)
(* model keeps every quotient as the exact rational <<num, den>>, den > 0, *)
(* in lowest terms.                                                        *)

Ok(v) == [kind |-> "ok", value |-> v]

RECURSIVE Gcd(_, _)
Gcd(a, b) == IF b = 0 THEN a ELSE Gcd(b, a % b)

Rat(n, d) == LET g == Gcd(n, d) IN IF g = 0 THEN <<0, 1>> ELSE <<n \div g, d \div g>>
RatAdd(a, b) == Rat(a[1] * b[2] + b[1] * a[2], a[2] * b[2])
RatDivInt(a, k) == Rat(a[1], a[2] * k)
RatZero == <<0, 1>>

\* sum() of a list of rationals
RECURSIVE RatSum(_)
RatSum(s) == IF s = <<>> THEN RatZero ELSE RatAdd(Head(s), RatSum(Tail(s)))

\* A precision that divides by the length of the whole ranked list
calculate_precision_over_list(retrieved_docs, relevant_docs, k) ==
    IF k > Len(retrieved_docs) THEN Raise("IndexError")
    ELSE LET count == Cardinality({index \in 1..k :
                                      InList(retrieved_docs[index], relevant_docs)})
         IN  Ok(Rat(count, Len(retrieved_docs)))

\* evaluation.py:29-35
calculate_precision_at_k(retrieved_docs, relevant_docs, k) ==
    IF k > Len(retrieved_docs) THEN Raise("IndexError")
    ELSE LET count == Cardinality({index \in 1..k :
                                      InList(retrieved_docs[index], relevant_docs)})
         IN  IF k = 0 THEN Raise("ZeroDivisionError") ELSE Ok(Rat(count, k))

\* evaluation.py:51-56  the loop, from 0-based position idx on
RECURSIVE SumPrecisions(_, _, _, _)
SumPrecisions(retrieved_docs, relevant_docs, idx, sum_precisions) ==
    IF idx >= Len(retrieved_docs) THEN Ok(sum_precisions)
    ELSE IF InList(retrieved_docs[idx + 1], relevant_docs)
         THEN LET p == calculate_precision_at_k(retrieved_docs, relevant_docs, idx + 1)
              IN  IF IsRaise(p) THEN p
                  ELSE SumPrecisions(retrieved_docs, relevant_docs, idx + 1,
                                     RatAdd(sum_precisions, p.value))
         ELSE SumPrecisions(retrieved_docs, relevant_docs, idx + 1, sum_precisions)

\* An average precision divided by the length of the ranked list
calculate_average_precision_over_retrieved(retrieved_docs, relevant_docs) ==
    LET sum_precisions == SumPrecisions(retrieved_docs, relevant_docs, 0, RatZero)
    IN  IF IsRaise(sum_precisions) THEN sum_precisions
        ELSE IF Len(retrieved_docs) = 0 THEN Raise("ZeroDivisionError")
        ELSE Ok(RatDivInt(sum_precisions.value, Len(retrieved_docs)))

\* evaluation.py:51-59
calculate_average_precision(retrieved_docs, relevant_docs) ==
    LET sum_precisions == SumPrecisions(retrieved_docs, relevant_docs, 0, RatZero)
    IN  IF IsRaise(sum_precisions) THEN sum_precisions
        ELSE IF Len(relevant_docs) = 0 THEN Raise("ZeroDivisionError")
        ELSE Ok(RatDivInt(sum_precisions.value, Len(relevant_docs)))

\* evaluation.py:76-82  the loop, over the remaining keys of all_retrieved_docs
RECURSIVE SumAveragePrecisions(_, _, _, _)
SumAveragePrecisions(keys, all_retrieved_docs, all_relevant_docs, sum_average_precisions) ==
    IF keys = <<>> THEN Ok(sum_average_precisions)
    ELSE LET retrieved_key == Head(keys)
         IN  IF ~HasKey(all_relevant_docs, retrieved_key)
             THEN Raise("There is a query that doesn't have any relevant document")
             ELSE LET ap == calculate_average_precision(
                                Get(all_retrieved_docs, retrieved_key),
                                Get(all_relevant_docs, retrieved_key))
                  IN  IF IsRaise(ap) THEN ap
                      ELSE SumAveragePrecisions(Tail(keys), all_retrieved_docs,
                               all_relevant_docs,
                               RatAdd(sum_average_precisions, ap.value))

\* evaluation.py:75-85
calculate_map(all_retrieved_docs, all_relevant_docs) ==
    LET s == SumAveragePrecisions(KeysOf(all_retrieved_docs), all_retrieved_docs,
                                  all_relevant_docs, RatZero)
    IN  IF IsRaise(s) THEN s
        ELSE IF Len(all_retrieved_docs) = 0 THEN Raise("ZeroDivisionError")
        ELSE Ok(RatDivInt(s.value, Len(all_retrieved_docs)))


---------------------------------------------------------------------------
(* Similarity and retrieval (app/services/retrieval_service.py).           *)

\* What calling an "async def" function without await evaluates to.
Coroutine(f) == [kind |-> "coroutine", of |-> f]

\* An inner loop that keeps, for a document, the product of the last shared
\* term only
RECURSIVE AccumulatePostingsOverwriting(_, _, _)
AccumulatePostingsOverwriting(postings, query_weight, sims) ==
    IF postings = <<>> THEN sims
    ELSE AccumulatePostingsOverwriting(Tail(postings), query_weight,
             Put(sims, Head(postings)[1], query_weight * Head(postings)[2]))

\* retrieval_service.py:210-212  the inner loop, over the postings of one term
RECURSIVE AccumulatePostings(_, _, _)
AccumulatePostings(postings, query_weight, sims) ==
    IF postings = <<>> THEN sims
    ELSE LET doc == Head(postings)[1]
             before == IF HasKey(sims, doc) THEN Get(sims, doc) ELSE 0
         IN  AccumulatePostings(Tail(postings), query_weight,
                 Put(sims, doc, before + query_weight * Head(postings)[2]))

\* retrieval_service.py:208-212  the outer loop, over the items of the query vector
RECURSIVE AccumulateTerms(_, _, _)
AccumulateTerms(query_items, document_vectors, sims) ==
    IF query_items = <<>> THEN sims
    ELSE LET query_key == Head(query_items)[1]
         IN  AccumulateTerms(Tail(query_items), document_vectors,
                 IF HasKey(document_vectors, query_key)
                 THEN AccumulatePostings(Get(document_vectors, query_key),
                                         Head(query_items)[2], sims)
                 ELSE sims)

\* An insertion that puts an item before the items of equal score
RECURSIVE InsertBeforeEqualScore(_, _)
InsertBeforeEqualScore(sorted, item) ==
    IF sorted = <<>> THEN <<item>>
    ELSE IF Head(sorted)[2] > item[2]
         THEN <<Head(sorted)>> \o InsertBeforeEqualScore(Tail(sorted), item)
         ELSE <<item>> \o sorted

\* sorted(items, key=score, reverse=True): stable, equal scores keep their order
RECURSIVE InsertByScore(_, _)
InsertByScore(sorted, item) ==
    IF sorted = <<>> THEN <<item>>
    ELSE IF Head(sorted)[2] >= item[2]
         THEN <<Head(sorted)>> \o InsertByScore(Tail(sorted), item)
         ELSE <<item>> \o sorted

\* A sort that leaves the items of equal score in reverse order
RECURSIVE SortByScoreTiesReversed(_, _)
SortByScoreTiesReversed(items, sorted) ==
    IF items = <<>> THEN sorted
    ELSE SortByScoreTiesReversed(Tail(items), InsertBeforeEqualScore(sorted, Head(items)))

RECURSIVE SortByScoreDesc(_, _)
SortByScoreDesc(items, sorted) ==
    IF items = <<>> THEN sorted
    ELSE SortByScoreDesc(Tail(items), InsertByScore(sorted, Head(items)))

\* retrieval_service.py:206-219.  query_vector.items() needs a dict: on any other
\* object the attribute lookup raises.
calculate_similarity(query_vector, document_vectors) ==
    IF query_vector.kind # "dict" THEN Raise("AttributeError")
    ELSE LET query_docs_similarities ==
                 AccumulateTerms(query_vector.items, document_vectors.items, <<>>)
         IN  [kind |-> "dict",
              items |-> IF Len(query_docs_similarities) > 0
                        THEN SortByScoreDesc(query_docs_similarities, <<>>)
                        ELSE query_docs_similarities]

\* retrieval_service.py:242-255.  Line 242 calls the coroutine function
\* calculate_query_weight without await, so query_vector is a coroutine object.
retrieve_document_single_query(query, inverted_file, weighting_method, relevant_doc) ==
    LET query_vector == Coroutine("calculate_query_weight")
        sim == calculate_similarity(query_vector, inverted_file)
    IN  IF IsRaise(sim) THEN sim
        ELSE LET ranked_docs == KeysOf(sim.items)
                 relevant_doc_ids ==
                     [i \in 1..Len(relevant_doc) |-> ToString(relevant_doc[i])]
                 average_precision ==
                     IF Len(relevant_doc) # 0
                     THEN calculate_average_precision(ranked_docs, relevant_doc_ids)
                     ELSE Ok(RatZero)
             IN  IF IsRaise(average_precision) THEN average_precision
                 ELSE [kind |-> "ok", sim |-> sim,
                       average_precision |-> average_precision.value]


---------------------------------------------------------------------------
(* The retrieval router (app/routers/retrieval.py): state and inputs.      *)

Handlers == 1..MaxHandlers

\* parsing_docs.json: absent, not JSON, JSON that is no object, or a corpus
FileStates == {"missing", "invalid", "malformed", "docs"}

\* json.load of the file, for the states in which it loads
DocsOnDisk(f) ==
    CASE f = "docs" ->
           [kind |-> "dict",
            items |-> << <<"1", <<"The", "system", "retrieves", "the", "documents">> >>,
                         <<"2", <<"the", "systems", "index">> >> >>]
      [] OTHER -> [kind |-> "list"]

\* The query parameters of GET /inverted-file
Params(st, sw, raw, lg, bin, aug, idf, nrm) ==
    [use_stemming |-> st, use_stopword_removal |-> sw, tf_raw |-> raw, tf_log |-> lg,
     tf_binary |-> bin, tf_augmented |-> aug, use_idf |-> idf, use_normalization |-> nrm]

ParamChoices ==
    { Params(FALSE, FALSE, TRUE, FALSE, FALSE, FALSE, FALSE, FALSE),
      Params(FALSE, FALSE, TRUE, FALSE, FALSE, FALSE, FALSE, TRUE),
      Params(TRUE, TRUE, FALSE, TRUE, FALSE, FALSE, TRUE, FALSE) }

NoParams == Params(FALSE, FALSE, FALSE, FALSE, FALSE, FALSE, FALSE, FALSE)

\* str(bool) inside an f-string
BoolStr(b) == IF b THEN "True" ELSE "False"

\* A key that leaves use_normalization out: requests that differ in it alone
\* would share an entry.
CacheKeyWithoutNormalization(p) ==
    BoolStr(p.use_stemming) \o "_" \o BoolStr(p.use_stopword_removal) \o "_"
    \o BoolStr(p.tf_raw) \o "_" \o BoolStr(p.tf_log) \o "_" \o BoolStr(p.tf_binary)
    \o "_" \o BoolStr(p.tf_augmented) \o "_" \o BoolStr(p.use_idf)

\* retrieval.py:205
CacheKeyOf(p) ==
    BoolStr(p.use_stemming) \o "_" \o BoolStr(p.use_stopword_removal) \o "_"
    \o BoolStr(p.tf_raw) \o "_" \o BoolStr(p.tf_log) \o "_" \o BoolStr(p.tf_binary)
    \o "_" \o BoolStr(p.tf_augmented) \o "_" \o BoolStr(p.use_idf) \o "_"
    \o BoolStr(p.use_normalization)

\* retrieval.py:220-227
WeightingMethodOf(p) ==
    [tf_raw |-> p.tf_raw, tf_log |-> p.tf_log, tf_binary |-> p.tf_binary,
     tf_augmented |-> p.tf_augmented, use_idf |-> p.use_idf,
     use_normalization |-> p.use_normalization]

\* retrieval.py:237-241 and 249-253
ParametersOf(p) ==
    [kind |-> "dict", use_stemming |-> p.use_stemming,
     use_stopword_removal |-> p.use_stopword_removal,
     document_weighting_method |-> WeightingMethodOf(p)]

\* A hit test with the key comparison turned round
CacheHitOtherKey(current_cache_key) ==
    _cached_inverted_file # None /\ _cache_key # current_cache_key

\* retrieval.py:208  the test that decides a cache hit
CacheHit(current_cache_key) ==
    _cached_inverted_file # None /\ _cache_key = current_cache_key

\* retrieval.py:121-124 and 415-418  the test of /retrieve and /retrieve-batch
CacheUnavailable ==
    ~_inverted_file_cache.is_cached \/ _inverted_file_cache.inverted_file = None

\* An HTTP response; svc tells whether the handler called the retrieval service.
Response(status, body, svc) ==
    [kind |-> "http", status |-> status, body |-> body, svc |-> svc]

\* The request a step handled: the handler (0: not GET /inverted-file) and the
\* request's parameters or body
Op(name, h, req) == [op |-> name, h |-> h, req |-> req]

\* The bodies of POST /retrieve: query, weighting_method and relevant_doc
RetrieveRequests ==
    { [query |-> <<"system">>, weighting_method |-> [tf_raw |-> TRUE],
       relevant_doc |-> <<>>],
      [query |-> <<"index", "documents">>,
       weighting_method |-> [tf_raw |-> TRUE, use_idf |-> TRUE],
       relevant_doc |-> <<1, 2>>] }


---------------------------------------------------------------------------
(* The retrieval router: handlers.  A handler runs without interruption    *)
(* from one await to the next.  GET /inverted-file awaits at line 231 (the *)
(* build, which itself awaits once per term at retrieval_service.py:71)    *)
(* and takes no lock and leaves no marker of the build in progress: other  *)
(* handlers may run while it is suspended there.                           *)

IdleEval  == UNCHANGED evalVars
IdleBatch == UNCHANGED batchVars
IdleExpansion == UNCHANGED qeVars
IdleCalls == UNCHANGED callVars

\* The handlers building the index for key when h's request arrives
InFlightSameKey(h, key) ==
    {g \in Handlers : g # h /\ pc[g] = "building" /\ CacheKeyOf(hreq[g]) = key}

\* Bookkeeping of joined and resp.  A response is kept only while a request
\* that arrived during its build is still in flight.
Watched(g) == \E f \in Handlers : pc[f] = "building" /\ joined[f] = g

\* ... after a step of no GET /inverted-file handler
JoinedKept == [g \in Handlers |-> IF pc[g] = "building" THEN joined[g] ELSE 0]
RespKept == [g \in Handlers |-> IF Watched(g) THEN resp[g] ELSE None]

\* ... after a new request on h, which arrived during the build of j (0: none)
JoinedAfterStart(h, j) ==
    [g \in Handlers |-> IF g = h THEN j ELSE IF joined[g] = h THEN 0 ELSE JoinedKept[g]]
RespAfter(h, r) == [g \in Handlers |-> IF g = h THEN r ELSE RespKept[g]]

\* ... after the build of h ended
JoinedAfterEnd(h) == [g \in Handlers |-> IF g = h THEN joined[h] ELSE JoinedKept[g]]

\* The environment rewrites or removes parsing_docs.json.
ReplaceDocsFile(f) ==
    /\ f # docsFile
    /\ docsFile' = f
    /\ joined' = JoinedKept /\ resp' = RespKept /\ out' = None
    /\ lastOp' = Op("replace_docs", 0, NoParams)
    /\ UNCHANGED <<_cached_inverted_file, _cache_key, _inverted_file_cache, pc, hreq,
                   hdocs>>
    /\ IdleEval /\ IdleBatch /\ IdleExpansion /\ IdleCalls

\* retrieval.py:205-210  cache hit
GetInvertedFileHit(h, p) ==
    /\ pc[h] = "idle"
    /\ CacheHit(CacheKeyOf(p))
    /\ out' = Response(200, _cached_inverted_file, FALSE)
    /\ resp' = RespAfter(h, out')
    /\ joined' = JoinedAfterStart(h, 0)
    /\ lastOp' = Op("get_hit", h, p)
    /\ UNCHANGED <<docsFile, _cached_inverted_file, _cache_key, _inverted_file_cache,
                   pc, hreq, hdocs>>
    /\ IdleEval /\ IdleBatch /\ IdleExpansion /\ IdleCalls

\* retrieval.py:215-217  open and json.load of parsing_docs.json
LoadDocuments(f) ==
    IF f = "missing" THEN Raise("FileNotFoundError")
    ELSE IF f = "invalid" THEN Raise("JSONDecodeError")
    ELSE DocsOnDisk(f)

\* What the request fails with before the build can be suspended: the file does
\* not load, or create_inverted_file raises on the documents (its first loop,
\* retrieval_service.py:60-65, runs before its first await); None otherwise.
BuildFailure(f, p) ==
    LET documents == LoadDocuments(f)
    IN  IF IsRaise(documents) THEN documents
        ELSE LET built == create_inverted_file(documents, p.use_stemming,
                              p.use_stopword_removal, WeightingMethodOf(p))
             IN  IF IsRaise(built) THEN built ELSE None

\* retrieval.py:268-280  the HTTP error an exception of the handler becomes
ErrorResponse(e) ==
    IF e.exc = "FileNotFoundError" THEN Response(404, e.exc, FALSE)
    ELSE Response(500, e.exc, FALSE)

\* A failing request that drops what the caches hold
GetInvertedFileErrorClearing(h, p) ==
    /\ pc[h] = "idle"
    /\ ~CacheHit(CacheKeyOf(p))
    /\ BuildFailure(docsFile, p) # None
    /\ out' = ErrorResponse(BuildFailure(docsFile, p))
    /\ resp' = RespAfter(h, out')
    /\ joined' = JoinedAfterStart(h, 0)
    /\ lastOp' = Op("get_error", h, p)
    /\ _cached_inverted_file' = None
    /\ _cache_key' = NoKey
    /\ _inverted_file_cache' = [inverted_file |-> None, parameters |-> None,
                                is_cached |-> FALSE]
    /\ UNCHANGED <<docsFile, pc, hreq, hdocs>>
    /\ IdleEval /\ IdleBatch /\ IdleExpansion /\ IdleCalls

\* retrieval.py:205-233, 268-280  cache miss, and the file does not load or the
\* build raises: an HTTP error
GetInvertedFileError(h, p) ==
    /\ pc[h] = "idle"
    /\ ~CacheHit(CacheKeyOf(p))
    /\ BuildFailure(docsFile, p) # None
    /\ out' = ErrorResponse(BuildFailure(docsFile, p))
    /\ resp' = RespAfter(h, out')
    /\ joined' = JoinedAfterStart(h, 0)
    /\ lastOp' = Op("get_error", h, p)
    /\ UNCHANGED <<docsFile, _cached_inverted_file, _cache_key, _inverted_file_cache,
                   pc, hreq, hdocs>>
    /\ IdleEval /\ IdleBatch /\ IdleExpansion /\ IdleCalls

\* retrieval.py:205-233  cache miss: load the documents and start the build
GetInvertedFileBuild(h, p) ==
    /\ pc[h] = "idle"
    /\ ~CacheHit(CacheKeyOf(p))
    /\ BuildFailure(docsFile, p) = None
    /\ pc' = [pc EXCEPT ![h] = "building"]
    /\ hreq' = [hreq EXCEPT ![h] = p]
    /\ hdocs' = [hdocs EXCEPT ![h] = docsFile]
    /\ out' = None
    /\ resp' = RespAfter(h, None)
    /\ joined' = JoinedAfterStart(h,
                     IF InFlightSameKey(h, CacheKeyOf(p)) = {} THEN 0
                     ELSE CHOOSE g \in InFlightSameKey(h, CacheKeyOf(p)) : TRUE)
    /\ lastOp' = Op("get_build", h, p)
    /\ UNCHANGED <<docsFile, _cached_inverted_file, _cache_key, _inverted_file_cache>>
    /\ IdleEval /\ IdleBatch /\ IdleExpansion /\ IdleCalls

\* retrieval.py:244-256  the response of a build
BuildResult(oid, documents, inverted_file, p) ==
    [kind |-> "dict", oid |-> oid, status |-> "success",
     total_documents |-> Len(documents.items),
     total_terms |-> Len(inverted_file.items),
     inverted_file |-> inverted_file,
     parameters |-> ParametersOf(p),
     cached |-> FALSE]

\* An index cache stored without its flag
StoredIndexCacheUnflagged(inverted_file, p) ==
    [inverted_file |-> inverted_file, parameters |-> ParametersOf(p), is_cached |-> FALSE]

\* retrieval.py:236-242  the index cache after a build
StoredIndexCache(inverted_file, p) ==
    [inverted_file |-> inverted_file, parameters |-> ParametersOf(p), is_cached |-> TRUE]

\* retrieval.py:231-266  the build ends: store the index and respond
GetInvertedFileStore(h) ==
    /\ pc[h] = "building"
    /\ LET p == hreq[h]
           documents == DocsOnDisk(hdocs[h])
           built == create_inverted_file(documents, p.use_stemming,
                        p.use_stopword_removal, WeightingMethodOf(p))
           inverted_file == [kind |-> "dict", oid |-> h, items |-> built.items]
           result == BuildResult(h, documents, inverted_file, p)
       IN  /\ _inverted_file_cache' = StoredIndexCache(inverted_file, p)
           /\ _cached_inverted_file' = result
           /\ _cache_key' = CacheKeyOf(p)
           /\ out' = Response(200, result, FALSE)
           /\ lastOp' = Op("get_store", h, p)
    /\ resp' = RespAfter(h, out')
    /\ joined' = JoinedAfterEnd(h)
    /\ pc' = [pc EXCEPT ![h] = "idle"]
    /\ hreq' = [hreq EXCEPT ![h] = NoParams]
    /\ hdocs' = [hdocs EXCEPT ![h] = "none"]
    /\ UNCHANGED docsFile
    /\ IdleEval /\ IdleBatch /\ IdleExpansion /\ IdleCalls

\* retrieval.py:290-309  the body of GET /cache/status
CacheStatusBody ==
    IF _inverted_file_cache.is_cached /\ _inverted_file_cache.inverted_file # None
    THEN [kind |-> "dict", is_cached |-> TRUE,
          total_terms |-> Len(_inverted_file_cache.inverted_file.items),
          parameters |-> _inverted_file_cache.parameters]
    ELSE [kind |-> "dict", is_cached |-> FALSE, total_terms |-> 0, parameters |-> None]

\* retrieval.py:283-309
GetCacheStatus ==
    /\ out' = Response(200, CacheStatusBody, FALSE)
    /\ joined' = JoinedKept /\ resp' = RespKept
    /\ lastOp' = Op("status", 0, NoParams)
    /\ UNCHANGED <<docsFile, _cached_inverted_file, _cache_key, _inverted_file_cache,
                   pc, hreq, hdocs>>
    /\ IdleEval /\ IdleBatch /\ IdleExpansion /\ IdleCalls

\* A clear that resets the entry and its key and forgets the index cache
ClearedIndexCacheKept == _inverted_file_cache

\* retrieval.py:323-325  the index cache after a clear
ClearedIndexCache == [inverted_file |-> None, parameters |-> None, is_cached |-> FALSE]

\* retrieval.py:312-331
ClearInvertedFileCache ==
    /\ _cached_inverted_file' = None
    /\ _cache_key' = NoKey
    /\ _inverted_file_cache' = ClearedIndexCache
    /\ out' = Response(200, [kind |-> "dict", status |-> "success"], FALSE)
    /\ joined' = JoinedKept /\ resp' = RespKept
    /\ lastOp' = Op("clear", 0, NoParams)
    /\ UNCHANGED <<docsFile, pc, hreq, hdocs>>
    /\ IdleEval /\ IdleBatch /\ IdleExpansion /\ IdleCalls

\* The missing-cache HTTPException caught by the generic handler and wrapped
NoCacheResponseWrapped ==
    Response(500, "Error dalam retrieval: 400: Inverted file cache tidak tersedia", FALSE)

\* retrieval.py:125-128, 164-166 (and 419-422, 486-488): the HTTPException raised
\* for a missing cache passes the handler's "except HTTPException: raise".
NoCacheResponse == Response(400, "Inverted file cache tidak tersedia", FALSE)

\* retrieval.py:150-162.  DocumentRetrievalResult declares ranked_documents as
\* List[Dict[str, Any]] (query_models.py:107) and is given the list of document
\* id strings: the model's validation raises unless the list is empty.
RetrieveSuccessResponse(rq, r) ==
    LET ranked_docs == KeysOf(r.sim.items)
    IN  IF Len(ranked_docs) > 0
        THEN Response(500, "ValidationError", TRUE)
        ELSE Response(200, [kind |-> "dict", status |-> "success",
                            ranked_documents |-> ranked_docs,
                            average_precision |-> r.average_precision,
                            total_retrieved |-> Len(ranked_docs),
                            query_used |-> rq.query], TRUE)

\* retrieval.py:117-171  POST /retrieve
RetrieveDocuments(rq) ==
    /\ out' = IF CacheUnavailable THEN NoCacheResponse
              ELSE LET r == retrieve_document_single_query(rq.query,
                                _inverted_file_cache.inverted_file,
                                rq.weighting_method, rq.relevant_doc)
                   IN  IF IsRaise(r) THEN Response(500, r.exc, TRUE)
                       ELSE RetrieveSuccessResponse(rq, r)
    /\ joined' = JoinedKept /\ resp' = RespKept
    /\ lastOp' = Op("retrieve", 0, rq)
    /\ UNCHANGED <<docsFile, _cached_inverted_file, _cache_key, _inverted_file_cache,
                   pc, hreq, hdocs>>
    /\ IdleEval /\ IdleBatch /\ IdleExpansion /\ IdleCalls

\* retrieval.py:411-493  POST /retrieve-batch.  With a cached index the handler
\* reads request.relevant_doc (line 426), a field BatchRetrievalInput
\* (query_models.py:128-151) does not declare: AttributeError, answered 500
\* before the retrieval service is called.
BatchRetrieveDocuments ==
    /\ out' = IF CacheUnavailable THEN NoCacheResponse
              ELSE Response(500, "AttributeError", FALSE)
    /\ joined' = JoinedKept /\ resp' = RespKept
    /\ lastOp' = Op("retrieve_batch", 0, NoParams)
    /\ UNCHANGED <<docsFile, _cached_inverted_file, _cache_key, _inverted_file_cache,
                   pc, hreq, hdocs>>
    /\ IdleEval /\ IdleBatch /\ IdleExpansion /\ IdleCalls

---------------------------------------------------------------------------
(* The specification of the router.                                        *)

EvalIdle == evalIn = None /\ evalOut = None
CallsIdle == callIn = None /\ callOut = None

\* query_expansion_service.py:25-34  QueryExpansionService.__init__
ExpansionIdle ==
    /\ model = None
    /\ _is_trained = FALSE
    /\ _current_preprocessing_config =
           [use_stemming |-> TRUE, use_stopword_removal |-> TRUE]
    /\ qeOut = None

BatchIdle ==
    /\ batchIn = None /\ batchPos = 0 /\ tuple_sim_ap = <<>>
    /\ batchSkipped = {} /\ batchOut = None

\* retrieval.py:40-48  the module as imported, no request in flight
RouterIdle ==
    /\ _cached_inverted_file = None
    /\ _cache_key = NoKey
    /\ _inverted_file_cache = [inverted_file |-> None, parameters |-> None,
                               is_cached |-> FALSE]
    /\ pc = [h \in Handlers |-> "idle"]
    /\ hreq = [h \in Handlers |-> NoParams]
    /\ hdocs = [h \in Handlers |-> "none"]
    /\ joined = [h \in Handlers |-> 0]
    /\ resp = [h \in Handlers |-> None]
    /\ out = None
    /\ lastOp = Op("init", 0, NoParams)

Init ==
    /\ docsFile \in FileStates
    /\ RouterIdle
    /\ EvalIdle /\ BatchIdle /\ ExpansionIdle /\ CallsIdle

Next ==
    \/ \E f \in FileStates : ReplaceDocsFile(f)
    \/ \E h \in Handlers, p \in ParamChoices : GetInvertedFileHit(h, p)
    \/ \E h \in Handlers, p \in ParamChoices : GetInvertedFileError(h, p)
    \/ \E h \in Handlers, p \in ParamChoices : GetInvertedFileBuild(h, p)
    \/ \E h \in Handlers : GetInvertedFileStore(h)
    \/ GetCacheStatus
    \/ ClearInvertedFileCache
    \/ \E rq \in RetrieveRequests : RetrieveDocuments(rq)
    \/ BatchRetrieveDocuments

Spec == Init /\ [][Next]_vars

---------------------------------------------------------------------------
(* Properties of the index cache.                                          *)

\* An entry built for the parameters p is stored.
EntryStoredFor(p) ==
    _cached_inverted_file # None /\ _cached_inverted_file.parameters = ParametersOf(p)

CacheState == <<_cached_inverted_file, _cache_key, _inverted_file_cache>>

C3_GetOrBuild ==
    [][ /\ (lastOp'.op = "get_hit" =>
              /\ EntryStoredFor(lastOp'.req)
              /\ out' = Response(200, _cached_inverted_file, FALSE)
              /\ pc' = pc
              /\ CacheState' = CacheState)
        /\ (lastOp'.op \in {"get_error", "get_build"} => ~EntryStoredFor(lastOp'.req))
        /\ (lastOp'.op = "get_build" => pc'[lastOp'.h] = "building")
        /\ (lastOp'.op = "get_store" =>
              /\ pc[lastOp'.h] = "building" /\ hreq[lastOp'.h] = lastOp'.req
              /\ _cached_inverted_file' # None
              /\ _cached_inverted_file'.parameters = ParametersOf(lastOp'.req)
              /\ _cache_key' = CacheKeyOf(lastOp'.req)
              /\ out' = Response(200, _cached_inverted_file', FALSE)
              /\ _inverted_file_cache'.inverted_file = _cached_inverted_file'.inverted_file)
      ]_vars

\* C3 witness: a request was answered from the cache with the entry a build stored.
C3_Witness ==
    /\ lastOp.op = "get_hit"
    /\ out.status = 200 /\ out.body = _cached_inverted_file
    /\ out.body.total_terms > 0

\* C4 as stated: a stored entry stays stored, and a request for its key stays a
\* hit, through every step that is not a clear.
C4_EvictedOnlyByClear ==
    [][ \A p \in ParamChoices :
          (EntryStoredFor(p) /\ lastOp'.op # "clear")
              => (EntryStoredFor(p)' /\ CacheHit(CacheKeyOf(p))') ]_vars

\* C4 amended: the cache holds one entry.  A stored entry stays stored, and a
\* request for its key stays a hit, through every step that is neither a clear
\* nor the end of a build for other parameters, which replaces it.
C4_EvictedByClearOrReplaced ==
    [][ \A p \in ParamChoices :
          (/\ EntryStoredFor(p)
           /\ lastOp'.op # "clear"
           /\ ~(lastOp'.op = "get_store" /\ lastOp'.req # p))
              => (EntryStoredFor(p)' /\ CacheHit(CacheKeyOf(p))') ]_vars

\* C4 witness: with an entry stored, a request for other parameters failed, and
\* the entry is still there.
C4_Witness ==
    /\ lastOp.op = "get_error"
    /\ _cached_inverted_file # None
    /\ ~EntryStoredFor(lastOp.req)

\* C5: right after a clear no entry remains, the status reports is_cached false
\* with no parameters and a request for any key misses; and whenever an entry is
\* stored the status reports is_cached true with the parameters and the term
\* count of that entry.
C5_ClearAndStatus ==
    /\ (lastOp.op = "clear" =>
          /\ _cached_inverted_file = None
          /\ ~CacheStatusBody.is_cached /\ CacheStatusBody.parameters = None
          /\ \A p \in ParamChoices : ~CacheHit(CacheKeyOf(p)))
    /\ (_cached_inverted_file # None =>
          /\ CacheStatusBody.is_cached
          /\ CacheStatusBody.parameters = _cached_inverted_file.parameters
          /\ CacheStatusBody.total_terms = _cached_inverted_file.total_terms)
    /\ (lastOp.op = "status" => out = Response(200, CacheStatusBody, FALSE))

\* C5 witness: the status was asked while an entry is stored.
C5_Witness ==
    /\ lastOp.op = "status"
    /\ _cached_inverted_file # None
    /\ out.body.is_cached /\ out.body.total_terms > 0

\* C6: with no index cached, POST /retrieve and POST /retrieve-batch answer 400,
\* do not call the retrieval service and leave the cache as it is.
C6_RejectedWithoutIndex ==
    [][ (lastOp'.op \in {"retrieve", "retrieve_batch"} /\ _cached_inverted_file = None)
            => (/\ out'.status = 400 /\ ~out'.svc
                /\ CacheState' = CacheState) ]_vars

\* C6 witness: a batch retrieval was rejected after the cache had been cleared.
C6_Witness ==
    /\ lastOp.op = "retrieve_batch"
    /\ out.status = 400
    /\ _cached_inverted_file = None

\* C7: with an index cached, POST /retrieve answers with status success, the
\* ranked document ids and the average precision, which is 0 when relevant_doc
\* is empty.
C7_RetrieveSucceeds ==
    (lastOp.op = "retrieve" /\ _cached_inverted_file # None)
        => /\ out.status = 200
           /\ out.body.status = "success"
           /\ out.body.total_retrieved = Len(out.body.ranked_documents)
           /\ (lastOp.req.relevant_doc = <<>> => out.body.average_precision = RatZero)


---------------------------------------------------------------------------
(* app/utils/evaluation.py called on its own: the arguments are drawn at   *)
(* the start, one call is made and its outcome kept.                       *)

DocIds == {"1", "2"}

\* Lists of document ids, ranked or relevant
DocLists == UNION {[1..n -> DocIds] : n \in 0..MaxLen}

\* The query ids a dict has, in insertion order
KeySeqs == {<<>>, <<"A">>, <<"B">>, <<"A", "B">>}

\* Dict[str, List[str]]
EvalDicts ==
    UNION {{[i \in 1..Len(ks) |-> <<ks[i], f[i]>>] : f \in [1..Len(ks) -> DocLists]}
           : ks \in KeySeqs}

\* evaluation.py:101-109  the dicts of the TEST block
DocumentedExample ==
    [all_retrieved_docs |-> << <<"A", <<"1", "3", "5">>>>,
                               <<"B", <<"4", "2", "1", "6">>>> >>,
     all_relevant_docs  |-> << <<"A", <<"1", "4", "5", "6">>>>,
                               <<"B", <<"2", "4", "3">>>> >>]

EvalInputs ==
    {[all_retrieved_docs |-> r, all_relevant_docs |-> v] : r, v \in EvalDicts}
        \cup {DocumentedExample}

EvalResult(fn, key, k, result) == [fn |-> fn, key |-> key, k |-> k, result |-> result]

\* calculate_precision_at_k on the lists of one query id, at a rank of the list
CallPrecisionAtK(key) ==
    /\ evalOut = None
    /\ HasKey(evalIn.all_retrieved_docs, key) /\ HasKey(evalIn.all_relevant_docs, key)
    /\ \E k \in 1..Len(Get(evalIn.all_retrieved_docs, key)) :
          evalOut' = EvalResult("calculate_precision_at_k", key, k,
                        calculate_precision_at_k(Get(evalIn.all_retrieved_docs, key),
                                                 Get(evalIn.all_relevant_docs, key), k))
    /\ UNCHANGED <<evalIn, cacheVars, batchVars, qeVars, callVars>>

\* calculate_average_precision on the lists of one query id
CallAveragePrecision(key) ==
    /\ evalOut = None
    /\ HasKey(evalIn.all_retrieved_docs, key) /\ HasKey(evalIn.all_relevant_docs, key)
    /\ evalOut' = EvalResult("calculate_average_precision", key, 0,
                      calculate_average_precision(Get(evalIn.all_retrieved_docs, key),
                                                  Get(evalIn.all_relevant_docs, key)))
    /\ UNCHANGED <<evalIn, cacheVars, batchVars, qeVars, callVars>>

\* calculate_map on the two dicts
CallMap ==
    /\ evalOut = None
    /\ evalOut' = EvalResult("calculate_map", NoKey, 0,
                      calculate_map(evalIn.all_retrieved_docs, evalIn.all_relevant_docs))
    /\ UNCHANGED <<evalIn, cacheVars, batchVars, qeVars, callVars>>

\* api.py:225-245  POST /evaluation/map
calculate_mean_average_precision(queries_results, relevant_documents) ==
    LET map_score == calculate_map(queries_results, relevant_documents)
        average_precision_per_query ==
            [i \in 1..Len(queries_results) |->
                <<queries_results[i][1],
                  calculate_average_precision(queries_results[i][2],
                      IF HasKey(relevant_documents, queries_results[i][1])
                      THEN Get(relevant_documents, queries_results[i][1])
                      ELSE <<>>)>>]
    IN  IF IsRaise(map_score) THEN Response(500, map_score.exc, FALSE)
        ELSE IF \E i \in 1..Len(queries_results) :
                    IsRaise(average_precision_per_query[i][2])
        THEN Response(500, "ZeroDivisionError", FALSE)
        ELSE Response(200,
                 [status |-> "success", map_score |-> map_score.value,
                  total_queries |-> Len(queries_results),
                  average_precision_per_query |->
                      [i \in 1..Len(queries_results) |->
                          <<queries_results[i][1],
                            average_precision_per_query[i][2].value>>]],
                 FALSE)

\* POST /evaluation/map on the two dicts
CallMapEndpoint ==
    /\ evalOut = None
    /\ evalOut' = EvalResult("calculate_mean_average_precision", NoKey, 0,
                      calculate_mean_average_precision(evalIn.all_retrieved_docs,
                                                       evalIn.all_relevant_docs))
    /\ UNCHANGED <<evalIn, cacheVars, batchVars, qeVars, callVars>>

InitEval ==
    /\ docsFile = "docs" /\ RouterIdle /\ BatchIdle /\ ExpansionIdle /\ CallsIdle
    /\ evalIn \in EvalInputs
    /\ evalOut = None

NextEval ==
    \/ \E key \in {"A", "B"} : CallPrecisionAtK(key)
    \/ \E key \in {"A", "B"} : CallAveragePrecision(key)
    \/ CallMap
    \/ CallMapEndpoint

SpecEval == InitEval /\ [][NextEval]_vars


---------------------------------------------------------------------------
(* Properties of evaluation.py.                                            *)

\* Documents of relevant among the first i of ranked
RelevantAmong(ranked, relevant, i) ==
    Cardinality({j \in 1..i : \E m \in 1..Len(relevant) : relevant[m] = ranked[j]})

\* Sum of precision@i over the positions i..Len(ranked) that hold a relevant document
RECURSIVE PrecisionSumFrom(_, _, _)
PrecisionSumFrom(ranked, relevant, i) ==
    IF i > Len(ranked) THEN RatZero
    ELSE LET rest == PrecisionSumFrom(ranked, relevant, i + 1)
         IN  IF \E m \in 1..Len(relevant) : relevant[m] = ranked[i]
             THEN RatAdd(Rat(RelevantAmong(ranked, relevant, i), i), rest)
             ELSE rest

\* The average precision of a query, 0 for a query with no relevant document
AveragePrecisionOf(ranked, relevant) ==
    IF Len(relevant) = 0 THEN RatZero
    ELSE RatDivInt(PrecisionSumFrom(ranked, relevant, 1), Len(relevant))

\* Sum of the average precisions of the queries i..Len(r) of r
RECURSIVE AveragePrecisionSumFrom(_, _, _)
AveragePrecisionSumFrom(r, v, i) ==
    IF i > Len(r) THEN RatZero
    ELSE RatAdd(AveragePrecisionOf(r[i][2], Get(v, r[i][1])),
                AveragePrecisionSumFrom(r, v, i + 1))

\* C8: calculate_map raises, and returns no value, when a query id of
\* all_retrieved_docs has no entry in all_relevant_docs; when every query id has
\* one it returns the sum of the queries' average precisions divided by the
\* number of queries of all_retrieved_docs.
C8_MapContract ==
    (evalOut # None /\ evalOut.fn = "calculate_map" /\ Len(evalIn.all_retrieved_docs) > 0)
        => LET r == evalIn.all_retrieved_docs
               v == evalIn.all_relevant_docs
           IN  IF \E i \in 1..Len(r) : ~HasKey(v, r[i][1])
               THEN IsRaise(evalOut.result)
               ELSE evalOut.result = Ok(RatDivInt(AveragePrecisionSumFrom(r, v, 1), Len(r)))


\* C11: on a non-empty relevant list calculate_average_precision returns the sum,
\* over the 1-based positions i of the ranked list that hold a relevant document,
\* of the number of relevant documents among the first i divided by i, all
\* divided by len(relevant); calculate_precision_at_k returns that quotient for
\* its k; positions that hold a non-relevant document add nothing.
C11_AveragePrecisionFormula ==
    (evalOut # None /\ evalOut.key # NoKey)
        => LET ranked == Get(evalIn.all_retrieved_docs, evalOut.key)
               relevant == Get(evalIn.all_relevant_docs, evalOut.key)
           IN  /\ (evalOut.fn = "calculate_precision_at_k" =>
                     evalOut.result = Ok(Rat(RelevantAmong(ranked, relevant, evalOut.k),
                                             evalOut.k)))
               /\ (evalOut.fn = "calculate_average_precision" /\ relevant # <<>> =>
                     evalOut.result =
                         Ok(RatDivInt(PrecisionSumFrom(ranked, relevant, 1), Len(relevant))))

\* C11 witness: an average precision of 1/2, from a ranked list whose first
\* document is not relevant and whose second is the only relevant one.
C11_Witness ==
    /\ evalOut # None /\ evalOut.fn = "calculate_average_precision"
    /\ Get(evalIn.all_retrieved_docs, evalOut.key) = <<"2", "1">>
    /\ Get(evalIn.all_relevant_docs, evalOut.key) = <<"1">>
    /\ evalOut.result = Ok(<<1, 2>>)

\* C12: calculate_map and the MAP endpoint treat the average precision of a
\* query whose relevant list is empty as 0 and never hand the empty list to
\* calculate_average_precision: called on at least one query, neither ends in
\* the division by zero of that function.
C12_EmptyRelevantSpecialCased ==
    (evalOut # None /\ Len(evalIn.all_retrieved_docs) > 0)
        => /\ (evalOut.fn = "calculate_map"
                 => evalOut.result # Raise("ZeroDivisionError"))
           /\ (evalOut.fn = "calculate_mean_average_precision"
                 => evalOut.result # Response(500, "ZeroDivisionError", FALSE))

\* C10 as stated: on the dicts of the TEST block the average precision of A is
\* 5/9, that of B is 1/3 and the MAP is 4/9.
C10_ExampleAsStated ==
    (evalIn = DocumentedExample /\ evalOut # None)
        => /\ (evalOut.fn = "calculate_average_precision" /\ evalOut.key = "A"
                 => evalOut.result = Ok(<<5, 9>>))
           /\ (evalOut.fn = "calculate_average_precision" /\ evalOut.key = "B"
                 => evalOut.result = Ok(<<1, 3>>))
           /\ (evalOut.fn = "calculate_map" => evalOut.result = Ok(<<4, 9>>))

\* C10 amended: on the dicts of the TEST block the average precision of A is
\* (1/1 + 2/3)/4 = 5/12, that of B is (1/1 + 2/2)/3 = 2/3 and the MAP is 13/24.
C10_ExampleAsComputed ==
    (evalIn = DocumentedExample /\ evalOut # None)
        => /\ (evalOut.fn = "calculate_average_precision" /\ evalOut.key = "A"
                 => evalOut.result = Ok(<<5, 12>>))
           /\ (evalOut.fn = "calculate_average_precision" /\ evalOut.key = "B"
                 => evalOut.result = Ok(<<2, 3>>))
           /\ (evalOut.fn = "calculate_map" => evalOut.result = Ok(<<13, 24>>))

\* C10 witness: calculate_map returned a value on the dicts of the TEST block.
C10_Witness ==
    /\ evalIn = DocumentedExample
    /\ evalOut # None /\ evalOut.fn = "calculate_map"
    /\ evalOut.result.kind = "ok"


---------------------------------------------------------------------------
(* RetrievalService.retrieve_document_batch_query called on its own, one   *)
(* step per turn of its loop (retrieval_service.py:280-292).               *)

BatchQueryIds == {"Q1", "Q2", "Q3"}

\* list_query: up to MaxBatch queries with distinct ids, in file order
ListQueries ==
    {q \in UNION {[1..n -> BatchQueryIds] : n \in 0..MaxBatch} :
        \A i, j \in 1..Len(q) : i # j => q[i] # q[j]}

\* What relevant_doc holds for a query id: nothing, an empty list, a judgment
JudgmentChoices == {"absent", "empty", "one"}

\* relevant_doc: Dict[str, List[int]]
RelevantDocOf(f) ==
    LET ids == <<"Q1", "Q2", "Q3">>
        present == SelectSeq(ids, LAMBDA q : f[q] # "absent")
    IN  [i \in 1..Len(present) |->
            <<present[i], IF f[present[i]] = "empty" THEN <<>> ELSE <<1>> >>]

BatchInputs ==
    {[list_query |-> [i \in 1..Len(q) |-> <<q[i], <<"system">>>>],
      inverted_file |-> create_inverted_file(DocsOnDisk("docs"), FALSE, FALSE,
                                             [tf_raw |-> TRUE]),
      weighting_method |-> [tf_raw |-> TRUE],
      relevant_doc |-> RelevantDocOf(f)]
        : q \in ListQueries, f \in [BatchQueryIds -> JudgmentChoices]}

\* retrieval_service.py:281-287  one turn of the loop.  The call at line 283 is
\* not awaited: it yields a coroutine object, and unpacking it into
\* "sim, average_precision" raises TypeError.
BatchLoopStep ==
    /\ batchIn # None /\ batchOut = None
    /\ batchPos < Len(batchIn.list_query)
    /\ LET query_id == batchIn.list_query[batchPos + 1][1]
       IN  IF HasKey(batchIn.relevant_doc, query_id)
           THEN /\ batchOut' = Raise("TypeError")
                /\ UNCHANGED <<batchPos, tuple_sim_ap, batchSkipped>>
           ELSE /\ batchPos' = batchPos + 1
                /\ batchSkipped' = batchSkipped \cup {query_id}
                /\ UNCHANGED <<batchOut, tuple_sim_ap>>
    /\ UNCHANGED <<batchIn, cacheVars, evalVars, qeVars, callVars>>

\* retrieval_service.py:288-292  after the loop
BatchLoopEnd ==
    /\ batchIn # None /\ batchOut = None
    /\ batchPos = Len(batchIn.list_query)
    /\ LET average_precisions == [i \in 1..Len(tuple_sim_ap) |-> tuple_sim_ap[i][2]]
           mean_average_precision ==
               RatDivInt(RatSum(average_precisions), Len(average_precisions))
       IN  batchOut' = IF Len(average_precisions) = 0 THEN Raise("ZeroDivisionError")
                       ELSE Ok(<<tuple_sim_ap, mean_average_precision>>)
    /\ UNCHANGED <<batchIn, batchPos, tuple_sim_ap, batchSkipped, cacheVars, evalVars,
                   qeVars, callVars>>

InitBatch ==
    /\ docsFile = "docs" /\ RouterIdle /\ EvalIdle /\ ExpansionIdle /\ CallsIdle
    /\ batchIn \in BatchInputs
    /\ batchPos = 0 /\ tuple_sim_ap = <<>> /\ batchSkipped = {} /\ batchOut = None

NextBatch == BatchLoopStep \/ BatchLoopEnd

SpecBatch == InitBatch /\ [][NextBatch]_vars

\* C9: the loop of retrieve_document_batch_query never passes a query that has
\* no relevance judgment: at such a query the call ends with an error, and no
\* query is left out of the average unnoticed.
C9_MissingJudgmentAborts ==
    [][ (/\ batchIn # None /\ batchOut = None
         /\ batchPos < Len(batchIn.list_query)
         /\ ~HasKey(batchIn.relevant_doc, batchIn.list_query[batchPos + 1][1]))
            => (/\ batchOut' # None /\ IsRaise(batchOut')
                /\ batchPos' = batchPos
                /\ batchSkipped' = {}) ]_vars

\* C29: retrieve_document_batch_query never ends in a division by zero: on an
\* empty batch, and on a batch none of whose queries has a judgment, it
\* returns a MAP or raises an error of its own.
C29_MapNeverDividesByZero ==
    (batchOut # None /\ IsRaise(batchOut)) => batchOut.exc # "ZeroDivisionError"


---------------------------------------------------------------------------
(* Query expansion (app/services/query_expansion_service.py).  Word2Vec is *)
(* an oracle: training keeps the words that occur min_count times in the   *)
(* preprocessed documents and fixes some similarity for every pair of them. *)

min_count == 2
topn == 10

MaxQuery == 2   \* words in a query given to expand_query
MaxLimit == 2   \* largest limit given to expand_query

\* Similarities the oracle may give a pair of words
SimLevels == {1, 2}

\* Collections a model is trained on: one whose preprocessed words repeat, and
\* an empty one
TrainingCorpora ==
    { [kind |-> "dict",
       items |-> << <<"1", <<"systems", "index", "documents", "system">>>>,
                    <<"2", <<"index", "documents", "The">>>> >>],
      [kind |-> "dict", items |-> <<>>] }

QueryWords == {"systems", "index"}
Queries == UNION {[1..n -> QueryWords] : n \in 0..MaxQuery}
Thresholds == {1, 2}
Limits == (-1)..MaxLimit
Configs == [use_stemming : BOOLEAN, use_stopword_removal : BOOLEAN]

\* query_expansion_service.py:86-96, 145-152  the sentences given to Word2Vec
RECURSIVE ProcessedDocs(_, _, _)
ProcessedDocs(items, use_stemming, use_stopword_removal) ==
    IF items = <<>> THEN <<>>
    ELSE preprocess_text(Head(items)[2], use_stemming, use_stopword_removal)
             \o ProcessedDocs(Tail(items), use_stemming, use_stopword_removal)

\* The vocabulary Word2Vec builds: words with at least min_count occurrences
Vocabulary(words) ==
    LET counts == Counter(words)
    IN  KeysOf(SelectSeq(counts, LAMBDA kv : kv[2] >= min_count))

\* The models Word2Vec(sentences, ...) may come to on a vocabulary: any
\* similarity over its pairs of distinct words
Word2VecModels(vocab) ==
    LET words == {vocab[i] : i \in 1..Len(vocab)}
        pairs == {p \in SUBSET words : Cardinality(p) = 2}
    IN  {[kind |-> "Word2Vec", vocab |-> vocab, sim |-> f] :
            f \in [pairs -> SimLevels]}

\* model.wv.most_similar(term, topn): the other words, most similar first
most_similar(m, term, n) ==
    LET others == SelectSeq(m.vocab, LAMBDA w : w # term)
        scored == [i \in 1..Len(others) |-> <<others[i], m.sim[{term, others[i]}]>>]
        ranked == SortByScoreDesc(scored, <<>>)
    IN  SubSeq(ranked, 1, IF Len(ranked) < n THEN Len(ranked) ELSE n)

\* query_expansion_service.py:285-298
get_similar_terms(m, term, threshold) ==
    IF m = None \/ ~InList(term, m.vocab) THEN <<>>
    ELSE SelectSeq(most_similar(m, term, topn), LAMBDA ts : ts[2] >= threshold)


\* query_expansion_service.py:227-238  the loop over the query terms.  A
\* candidate of the pool is <<term, similarity, source>>.
RECURSIVE CollectSimilarTerms(_, _, _, _, _, _)
CollectSimilarTerms(query_terms, m, threshold, isLimited, expansion_terms, all_expansion_candidates) ==
    IF query_terms = <<>> THEN <<expansion_terms, all_expansion_candidates>>
    ELSE LET term == Head(query_terms)
             similar_terms == get_similar_terms(m, term, threshold)
         IN  IF similar_terms = <<>>
             THEN CollectSimilarTerms(Tail(query_terms), m, threshold, isLimited,
                                      expansion_terms, all_expansion_candidates)
             ELSE CollectSimilarTerms(Tail(query_terms), m, threshold, isLimited,
                      Put(expansion_terms, term, similar_terms),
                      IF isLimited
                      THEN all_expansion_candidates \o
                           [i \in 1..Len(similar_terms) |->
                               <<similar_terms[i][1], similar_terms[i][2], term>>]
                      ELSE all_expansion_candidates)

\* query_expansion_service.py:246-251  returned_expansion_terms
RECURSIVE GroupBySource(_, _)
GroupBySource(candidates, returned_expansion_terms) ==
    IF candidates = <<>> THEN returned_expansion_terms
    ELSE LET item == Head(candidates)
             before == IF HasKey(returned_expansion_terms, item[3])
                       THEN Get(returned_expansion_terms, item[3]) ELSE <<>>
         IN  GroupBySource(Tail(candidates),
                 Put(returned_expansion_terms, item[3],
                     Append(before, <<item[1], item[2]>>)))

\* query_expansion_service.py:261-263  the terms of every list of expansion_terms
RECURSIVE TermsOfLists(_)
TermsOfLists(term_lists) ==
    IF term_lists = <<>> THEN <<>>
    ELSE [i \in 1..Len(Head(term_lists)) |-> Head(term_lists)[i][1]]
             \o TermsOfLists(Tail(term_lists))

\* An expansion that cuts the pool at the limit without sorting it
expand_query_unsorted(query, threshold, limit) ==
    IF ~_is_trained THEN Raise("ValueError")
    ELSE LET isLimited == limit > -1
             query_terms == preprocess_text(query,
                                _current_preprocessing_config.use_stemming,
                                _current_preprocessing_config.use_stopword_removal)
             collected == CollectSimilarTerms(query_terms, model, threshold, isLimited,
                                              <<>>, <<>>)
             pool == collected[2]
             all_expansion_candidates ==
                 SubSeq(pool, 1, IF Len(pool) < limit THEN Len(pool) ELSE limit)
         IN  Ok([original_query |-> query,
                 original_terms |-> query_terms,
                 expansion_terms |-> IF isLimited
                                     THEN GroupBySource(all_expansion_candidates, <<>>)
                                     ELSE collected[1],
                 expanded_terms |->
                     IF isLimited
                     THEN query_terms \o [i \in 1..Len(all_expansion_candidates) |->
                                             all_expansion_candidates[i][1]]
                     ELSE query_terms \o TermsOfLists(ValuesOf(collected[1]))])

\* query_expansion_service.py:210-270
expand_query(query, threshold, limit) ==
    IF ~_is_trained THEN Raise("ValueError")
    ELSE LET isLimited == limit > -1
             query_terms == preprocess_text(query,
                                _current_preprocessing_config.use_stemming,
                                _current_preprocessing_config.use_stopword_removal)
             collected == CollectSimilarTerms(query_terms, model, threshold, isLimited,
                                              <<>>, <<>>)
             sorted == SortByScoreDesc(collected[2], <<>>)
             all_expansion_candidates ==
                 SubSeq(sorted, 1, IF Len(sorted) < limit THEN Len(sorted) ELSE limit)
         IN  Ok([original_query |-> query,
                 original_terms |-> query_terms,
                 expansion_terms |-> IF isLimited
                                     THEN GroupBySource(all_expansion_candidates, <<>>)
                                     ELSE collected[1],
                 expanded_terms |->
                     IF isLimited
                     THEN query_terms \o [i \in 1..Len(all_expansion_candidates) |->
                                             all_expansion_candidates[i][1]]
                     ELSE query_terms \o TermsOfLists(ValuesOf(collected[1]))])

\* What a call of the service left: the method, its arguments, its outcome
QeCall(op, query, threshold, limit, result) ==
    [op |-> op, query |-> query, threshold |-> threshold, limit |-> limit,
     result |-> result]

\* A training that raises the flag although Word2Vec failed
TrainWord2VecModelFlagged(documents) ==
    LET vocab == Vocabulary(ProcessedDocs(documents.items,
                     _current_preprocessing_config.use_stemming,
                     _current_preprocessing_config.use_stopword_removal))
    IN  /\ IF vocab = <<>>
           THEN /\ qeOut' = QeCall("train_word2vec_model", <<>>, 0, 0,
                                   Raise("RuntimeError"))
                /\ _is_trained' = TRUE
                /\ UNCHANGED model
           ELSE /\ model' \in Word2VecModels(vocab)
                /\ _is_trained' = TRUE
                /\ qeOut' = QeCall("train_word2vec_model", <<>>, 0, 0, Ok(None))
        /\ UNCHANGED <<_current_preprocessing_config, cacheVars, evalVars, batchVars,
                       callVars>>

\* query_expansion_service.py:79-112  train_word2vec_model.  Word2Vec raises
\* RuntimeError on an empty vocabulary, before self.model is assigned.
TrainWord2VecModel(documents) ==
    LET vocab == Vocabulary(ProcessedDocs(documents.items,
                     _current_preprocessing_config.use_stemming,
                     _current_preprocessing_config.use_stopword_removal))
    IN  /\ IF vocab = <<>>
           THEN /\ qeOut' = QeCall("train_word2vec_model", <<>>, 0, 0,
                                   Raise("RuntimeError"))
                /\ UNCHANGED <<model, _is_trained>>
           ELSE /\ model' \in Word2VecModels(vocab)
                /\ _is_trained' = TRUE
                /\ qeOut' = QeCall("train_word2vec_model", <<>>, 0, 0, Ok(None))
        /\ UNCHANGED <<_current_preprocessing_config, cacheVars, evalVars, batchVars,
                       callVars>>

\* query_expansion_service.py:114-171  retrain_word2vec_model: the configuration
\* is replaced before the training
RetrainWord2VecModel(documents, config) ==
    LET vocab == Vocabulary(ProcessedDocs(documents.items, config.use_stemming,
                                          config.use_stopword_removal))
    IN  /\ _current_preprocessing_config' = config
        /\ IF vocab = <<>>
           THEN /\ qeOut' = QeCall("retrain_word2vec_model", <<>>, 0, 0,
                                   Raise("RuntimeError"))
                /\ UNCHANGED <<model, _is_trained>>
           ELSE /\ model' \in Word2VecModels(vocab)
                /\ _is_trained' = TRUE
                /\ qeOut' = QeCall("retrain_word2vec_model", <<>>, 0, 0,
                                   Ok([vocabulary_size |-> Len(vocab),
                                       preprocessing_config |-> config,
                                       total_documents |-> Len(documents.items)]))
        /\ UNCHANGED <<cacheVars, evalVars, batchVars, callVars>>

\* query_expansion_service.py:182-194  load_pretrained_model: the file loads to
\* some model, or Word2Vec.load raises; _is_trained is not written
LoadPretrainedModel(loads) ==
    /\ IF loads
       THEN /\ model' \in Word2VecModels(<<"index", "documents">>)
            /\ qeOut' = QeCall("load_pretrained_model", <<>>, 0, 0, Ok(None))
       ELSE /\ qeOut' = QeCall("load_pretrained_model", <<>>, 0, 0, Raise("Exception"))
            /\ UNCHANGED model
    /\ UNCHANGED <<_is_trained, _current_preprocessing_config, cacheVars, evalVars,
                   batchVars, callVars>>

\* query_expansion_service.py:196-270  expand_query
ExpandQuery(query, threshold, limit) ==
    /\ qeOut' = QeCall("expand_query", query, threshold, limit,
                       expand_query(query, threshold, limit))
    /\ UNCHANGED <<model, _is_trained, _current_preprocessing_config, cacheVars,
                   evalVars, batchVars, callVars>>

InitExpansion ==
    /\ docsFile = "docs" /\ RouterIdle /\ EvalIdle /\ BatchIdle /\ CallsIdle
    /\ ExpansionIdle

NextExpansion ==
    \/ \E documents \in TrainingCorpora : TrainWord2VecModel(documents)
    \/ \E documents \in TrainingCorpora, config \in Configs :
          RetrainWord2VecModel(documents, config)
    \/ \E loads \in BOOLEAN : LoadPretrainedModel(loads)
    \/ \E query \in Queries, threshold \in Thresholds, limit \in Limits :
          ExpandQuery(query, threshold, limit)

SpecExpansion == InitExpansion /\ [][NextExpansion]_vars


---------------------------------------------------------------------------
(* Properties of the query expansion.                                      *)

SetOf(seq) == {seq[i] : i \in 1..Len(seq)}

\* The last call was an expand_query that returned
Expanded == qeOut # None /\ qeOut.op = "expand_query" /\ qeOut.result.kind = "ok"

\* The candidates of a returned expansion, pooled over the query terms: <<i, w>>
\* for the word w at least as similar as the threshold to the i-th query term
CandidatePool ==
    LET terms == qeOut.result.value.original_terms
        words == SetOf(model.vocab)
    IN  {c \in (1..Len(terms)) \X words :
            /\ terms[c[1]] \in words /\ c[2] # terms[c[1]]
            /\ model.sim[{terms[c[1]], c[2]}] >= qeOut.threshold}

SimOf(c) == model.sim[{qeOut.result.value.original_terms[c[1]], c[2]}]

\* C13: with limit -1 the expanded terms are the union of the query terms and
\* the candidates at or above the threshold, each of them once.
C13_UnlimitedIsDeduplicatedUnion ==
    (Expanded /\ qeOut.limit = -1)
        => LET e == qeOut.result.value.expanded_terms
           IN  /\ SetOf(e) = SetOf(qeOut.result.value.original_terms)
                                \cup {c[2] : c \in CandidatePool}
               /\ \A i, j \in 1..Len(e) : i # j => e[i] # e[j]

RECURSIVE EmittedUpTo(_)
EmittedUpTo(i) ==
    IF i = 0 THEN <<>>
    ELSE EmittedUpTo(i - 1)
            \o get_similar_terms(model, qeOut.result.value.original_terms[i], qeOut.threshold)

Emitted == EmittedUpTo(Len(qeOut.result.value.original_terms))

\* Candidates that come before the p-th emitted one: the more similar ones, and
\* the equally similar ones emitted earlier
RankOf(p) ==
    Cardinality({q \in 1..Len(Emitted) :
                    \/ Emitted[q][2] > Emitted[p][2]
                    \/ (Emitted[q][2] = Emitted[p][2] /\ q < p)})

\* C23: with limit N >= 0 the appended terms are the emitted candidates by
\* descending similarity, equally similar ones in emission order, cut after
\* the first N: of equally similar candidates the later-emitted are dropped.
C23_TiesKeepEmissionOrder ==
    (Expanded /\ qeOut.limit >= 0)
        => LET e == qeOut.result.value.expanded_terms
               terms == qeOut.result.value.original_terms
               kept == IF qeOut.limit < Len(Emitted) THEN qeOut.limit ELSE Len(Emitted)
           IN  /\ Len(e) = Len(terms) + kept
               /\ \A p \in 1..Len(Emitted) :
                     RankOf(p) < kept => e[Len(terms) + RankOf(p) + 1] = Emitted[p][1]

\* C23 witness: two equally similar candidates with different words, the limit
\* between them: the one emitted first was appended, the other was not.
C23_Witness ==
    /\ Expanded /\ qeOut.limit >= 1
    /\ \E p, q \in 1..Len(Emitted) :
          /\ p < q /\ Emitted[p][2] = Emitted[q][2] /\ Emitted[p][1] # Emitted[q][1]
          /\ RankOf(p) = qeOut.limit - 1
          /\ qeOut.result.value.expanded_terms[
                 Len(qeOut.result.value.original_terms) + qeOut.limit] = Emitted[p][1]

\* C15: expand_query raises, and returns nothing, in every state that holds no
\* trained model; whenever it returns a result a model is present.
C15_FailsFastUntrained ==
    /\ (_is_trained => model # None)
    /\ (qeOut # None /\ qeOut.op = "expand_query" =>
          /\ (model = None \/ ~_is_trained => IsRaise(qeOut.result))
          /\ (qeOut.result.kind = "ok" => model # None /\ _is_trained))

\* C15 witness: a training failed on the fresh service, and the expand_query
\* that followed raised.
C15_Witness ==
    /\ qeOut # None /\ qeOut.op = "expand_query"
    /\ model = None /\ ~_is_trained
    /\ qeOut.result = Raise("ValueError")



\* C26: once a model is trained, _current_preprocessing_config is the
\* configuration of the last training that completed: it changes only in a
\* step in which train_word2vec_model or retrain_word2vec_model returns, and
\* a retrain that raises leaves it alone.
C26_ConfigOfLastCompletedTraining ==
    [][(_is_trained /\ _current_preprocessing_config' # _current_preprocessing_config)
          => /\ qeOut'.op \in {"train_word2vec_model", "retrain_word2vec_model"}
             /\ qeOut'.result.kind = "ok"]_vars


\* Occurrences of w in a sequence
CountIn(w, seq) == Cardinality({i \in 1..Len(seq) : seq[i] = w})

\* The terms a returned expansion has after the query terms
AppendedOf(value) ==
    SubSeq(value.expanded_terms, Len(value.original_terms) + 1, Len(value.expanded_terms))

\* C27: an expansion with a limit at least the number of candidates at or above
\* the threshold appends the same terms, each as many times, as the expansion
\* of the same query with the same threshold and limit -1.
C27_LargeLimitAsUnlimited ==
    (Expanded /\ qeOut.limit >= Len(Emitted))
        => LET limited == AppendedOf(qeOut.result.value)
               unlimited == AppendedOf(expand_query(qeOut.query, qeOut.threshold, -1).value)
           IN  \A w \in SetOf(limited) \cup SetOf(unlimited) :
                  CountIn(w, limited) = CountIn(w, unlimited)


\* C28: an expand_query that follows a load_pretrained_model that returned does
\* not raise.
C28_LoadedModelServes ==
    [][(/\ qeOut # None /\ qeOut.op = "load_pretrained_model" /\ qeOut.result.kind = "ok"
        /\ qeOut'.op = "expand_query")
          => qeOut'.result.kind = "ok"]_vars

---------------------------------------------------------------------------
(* RetrievalService.calculate_tf_idf called on its own: the arguments are  *)
(* drawn at the start, one call is made and its outcome kept.              *)

MaxFreq == 2    \* occurrences of a term in a document of a frequency table

TfIdfTerms == <<"index", "system">>

\* Counter of a document: each term absent or present with its occurrences
TermCounters ==
    {SelectSeq([i \in 1..Len(TfIdfTerms) |-> <<TfIdfTerms[i], n[i]>>],
               LAMBDA kv : kv[2] > 0) : n \in [1..Len(TfIdfTerms) -> 0..MaxFreq]}

\* freq_file: the counters of no document, of document 1, of documents 1 and 2
FreqFiles ==
    {<<>>} \cup {<< <<"1", c>> >> : c \in TermCounters}
           \cup {<< <<"1", c>>, <<"2", d>> >> : c, d \in TermCounters}

\* weighting_method: every combination of the six flags, and dicts that leave
\* flags out
WeightingMethods ==
    [tf_raw : BOOLEAN, tf_log : BOOLEAN, tf_binary : BOOLEAN, tf_augmented : BOOLEAN,
     use_idf : BOOLEAN, use_normalization : BOOLEAN]
        \cup {[tf_binary |-> FALSE], [tf_log |-> TRUE]}

TfIdfInputs ==
    {[fn |-> "calculate_tf_idf", term |-> t, doc |-> d, freq_file |-> ff,
      weighting_method |-> wm] :
        t \in {"index", "system"}, d \in {"1", "2"}, ff \in FreqFiles,
        wm \in WeightingMethods}

CallTfIdf ==
    /\ callIn # None /\ callOut = None
    /\ callIn.fn = "calculate_tf_idf"
    /\ callOut' = calculate_tf_idf(callIn.term, callIn.doc, callIn.freq_file,
                                   callIn.weighting_method)
    /\ UNCHANGED <<callIn, cacheVars, evalVars, batchVars, qeVars>>

InitTfIdf ==
    /\ docsFile = "docs" /\ RouterIdle /\ EvalIdle /\ BatchIdle /\ ExpansionIdle
    /\ callIn \in TfIdfInputs
    /\ callOut = None

NextTfIdf == CallTfIdf

SpecTfIdf == InitTfIdf /\ [][NextTfIdf]_vars

---------------------------------------------------------------------------
(* Properties of the document-side weighting.                              *)

\* The two-adic logarithm of a Real, when its argument is a small power of two
Log2Of(r) ==
    CHOOSE k \in -1..3 :
        \/ (k = -1 /\ \A j \in 0..3 : r.log2[1] # r.log2[2] * (2 ^ j))
        \/ (k >= 0 /\ r.log2[1] = r.log2[2] * (2 ^ k))

\* A Real as a rational; defined when Log2Of is not -1
RatOf(r) == RatAdd(r.rat, <<Log2Of(r), 1>>)

RatMul(a, b) == Rat(a[1] * b[1], a[2] * b[2])

\* The value of a weight is the rational q
WeightIs(w, q) ==
    IF w.kind = "int" THEN <<w.value, 1>> = q
    ELSE /\ Log2Of(w.tf) >= 0 /\ Log2Of(w.idf) >= 0 /\ Log2Of(w.normalization) >= 0
         /\ RatMul(RatMul(RatOf(w.tf), RatOf(w.idf)), RatOf(w.normalization)) = q

\* Occurrences of a term in a document of a frequency table, 0 when the
\* document or the term is not there
RawFrequency(term, doc, freq_file) ==
    IF \E i \in 1..Len(freq_file) :
          freq_file[i][1] = doc /\ \E j \in 1..Len(freq_file[i][2]) :
                                      freq_file[i][2][j][1] = term
    THEN LET i == CHOOSE i \in 1..Len(freq_file) : freq_file[i][1] = doc
             j == CHOOSE j \in 1..Len(freq_file[i][2]) : freq_file[i][2][j][1] = term
         IN  freq_file[i][2][j][2]
    ELSE 0

TfIdfCalled == callIn # None /\ callIn.fn = "calculate_tf_idf" /\ callOut # None

\* C16: for a term whose frequency in the document is 0, the term or the
\* document being absent from the table, calculate_tf_idf returns the weight 0
\* and raises nothing, whatever the flags.
C16_ZeroFrequencyZeroWeight ==
    (TfIdfCalled /\ RawFrequency(callIn.term, callIn.doc, callIn.freq_file) = 0)
        => /\ callOut.kind = "ok"
           /\ callOut.term = callIn.term /\ callOut.doc = callIn.doc
           /\ WeightIs(callOut.weight, <<0, 1>>)

\* C16 witness: weight 0 returned for a document absent from the table, with
\* tf_log and use_idf set.
C16_Witness ==
    /\ TfIdfCalled
    /\ callIn.freq_file = <<>>
    /\ WmGet(callIn.weighting_method, "tf_log") /\ WmGet(callIn.weighting_method, "use_idf")
    /\ ~WmGet(callIn.weighting_method, "tf_raw")
    /\ callOut.kind = "ok" /\ WeightIs(callOut.weight, <<0, 1>>)

\* C17: with every tf_* flag, use_idf and use_normalization false or absent, the
\* weight of a term of frequency f > 0 in the document is f.
C17_DefaultIsRawFrequency ==
    (/\ TfIdfCalled
     /\ \A name \in {"tf_raw", "tf_log", "tf_binary", "tf_augmented", "use_idf",
                     "use_normalization"} :
           name \in DOMAIN callIn.weighting_method => ~callIn.weighting_method[name]
     /\ RawFrequency(callIn.term, callIn.doc, callIn.freq_file) > 0)
        => /\ callOut.kind = "ok"
           /\ WeightIs(callOut.weight,
                       <<RawFrequency(callIn.term, callIn.doc, callIn.freq_file), 1>>)

\* C17 witness: a weighting_method that leaves five flags out and has tf_binary
\* false gave a term that occurs twice the weight 2.
C17_Witness ==
    /\ TfIdfCalled
    /\ callIn.weighting_method = [tf_binary |-> FALSE]
    /\ RawFrequency(callIn.term, callIn.doc, callIn.freq_file) = 2
    /\ callOut.kind = "ok" /\ WeightIs(callOut.weight, <<2, 1>>)



\* The stated precedence of the TF flags
TfPrecedence == <<"tf_raw", "tf_log", "tf_binary", "tf_augmented">>

\* The first flag of a precedence that is true in wm, "tf_raw" when none is
FirstTrueFlag(precedence, wm) ==
    IF \E i \in 1..Len(precedence) : WmGet(wm, precedence[i])
    THEN precedence[CHOOSE i \in 1..Len(precedence) :
                        /\ WmGet(wm, precedence[i])
                        /\ \A j \in 1..(i - 1) : ~WmGet(wm, precedence[j])]
    ELSE "tf_raw"

\* Largest frequency of a term in document doc of a frequency table
MaxFrequencyIn(doc, freq_file) ==
    LET fs == {RawFrequency(t, doc, freq_file) : t \in {"index", "system"}}
    IN  CHOOSE m \in fs : \A n \in fs : n <= m

\* The value of each TF variant for frequency f and largest frequency m, as
\* <<rational part, argument of the logarithm>>
VariantValue(flag, f, m) ==
    CASE flag = "tf_raw"       -> <<Rat(f, 1), 1>>
      [] flag = "tf_log"       -> <<Rat(1, 1), f>>
      [] flag = "tf_binary"    -> <<Rat(1, 1), 1>>
      [] flag = "tf_augmented" -> <<Rat(m + f, 2 * m), 1>>

\* C21: the TF factor of a weight of calculate_tf_idf is the variant of the
\* first true flag in the order raw, log, binary, augmented, and the raw
\* frequency when no flag is true.
C21_TfPrecedence ==
    (TfIdfCalled /\ RawFrequency(callIn.term, callIn.doc, callIn.freq_file) > 0)
        => /\ callOut.kind = "ok" /\ callOut.weight.kind = "float"
           /\ LET f == RawFrequency(callIn.term, callIn.doc, callIn.freq_file)
                  v == VariantValue(FirstTrueFlag(TfPrecedence, callIn.weighting_method),
                                    f, MaxFrequencyIn(callIn.doc, callIn.freq_file))
                  tf == callOut.weight.tf
              IN  /\ Rat(tf.rat[1], tf.rat[2]) = v[1]
                  /\ tf.log2[1] = v[2] * tf.log2[2]

\* C21 witness: tf_log, tf_binary and tf_augmented all set, tf_raw not, for a
\* term occurring twice: the TF is 1 + log2(2), neither 1 nor the augmented one.
C21_Witness ==
    /\ TfIdfCalled
    /\ callIn.weighting_method \in [DOMAIN callIn.weighting_method -> BOOLEAN]
    /\ ~WmGet(callIn.weighting_method, "tf_raw")
    /\ WmGet(callIn.weighting_method, "tf_log")
    /\ WmGet(callIn.weighting_method, "tf_binary")
    /\ WmGet(callIn.weighting_method, "tf_augmented")
    /\ RawFrequency(callIn.term, callIn.doc, callIn.freq_file) = 2
    /\ callOut.kind = "ok" /\ callOut.weight.kind = "float"
    /\ callOut.weight.tf = Real(1, 1, 2, 1)

---------------------------------------------------------------------------
(* RetrievalService.create_inverted_file called on its own.                *)

MaxWords == 2    \* words of one document of the corpus

CorpusWords == {"The", "systems", "index"}

Texts == UNION {[1..n -> CorpusWords] : n \in 0..MaxWords}

\* documents: no document, document 1, documents 1 and 2
Corpora ==
    {<<>>} \cup {<< <<"1", a>> >> : a \in Texts}
           \cup {<< <<"1", a>>, <<"2", b>> >> : a, b \in Texts}

IndexWeightings ==
    {[tf_raw |-> TRUE], [tf_raw |-> TRUE, use_idf |-> TRUE],
     [tf_binary |-> TRUE, use_idf |-> TRUE, use_normalization |-> TRUE],
     [tf_log |-> TRUE, use_normalization |-> TRUE],
     [tf_log |-> TRUE, use_idf |-> TRUE],
     [tf_augmented |-> TRUE, use_idf |-> TRUE, use_normalization |-> TRUE],
     [use_idf |-> TRUE]}

IndexInputs ==
    {[fn |-> "create_inverted_file", documents |-> [kind |-> "dict", items |-> c],
      use_stemming |-> st, use_stopword_removal |-> sw,
      document_weighting_method |-> wm] :
        c \in Corpora, st \in BOOLEAN, sw \in BOOLEAN, wm \in IndexWeightings}

CallCreateInvertedFile ==
    /\ callIn # None /\ callOut = None
    /\ callIn.fn = "create_inverted_file"
    /\ callOut' = create_inverted_file(callIn.documents, callIn.use_stemming,
                                       callIn.use_stopword_removal,
                                       callIn.document_weighting_method)
    /\ UNCHANGED <<callIn, cacheVars, evalVars, batchVars, qeVars>>

InitIndex ==
    /\ docsFile = "docs" /\ RouterIdle /\ EvalIdle /\ BatchIdle /\ ExpansionIdle
    /\ callIn \in IndexInputs
    /\ callOut = None

NextIndex == CallCreateInvertedFile

SpecIndex == InitIndex /\ [][NextIndex]_vars

---------------------------------------------------------------------------
(* Properties of the index.                                                *)

IndexBuilt == callIn # None /\ callIn.fn = "create_inverted_file" /\ callOut # None

\* The normalized tokens of document d of the corpus, none if d is not there
NormalizedTokens(d) ==
    IF HasKey(callIn.documents.items, d)
    THEN LET tokens == preprocess_text(Get(callIn.documents.items, d),
                                       callIn.use_stemming, callIn.use_stopword_removal)
         IN  {tokens[i] : i \in 1..Len(tokens)}
    ELSE {}

IndexTerms == {"The", "the", "systems", "system", "index"}

HasPosting(index, t, d) == HasKey(index.items, t) /\ HasKey(Get(index.items, t), d)

\* The value of a weight is 0: the integer 0, or a product with the factor
\* log2(N / N)
ZeroWeight(w) ==
    \/ w.kind = "int" /\ w.value = 0
    \/ w.kind = "float" /\ \E f \in {w.tf, w.idf, w.normalization} :
                              f.rat[1] = 0 /\ f.log2[1] = f.log2[2]

\* C18: the index has an entry index[t][d] exactly for the terms t among the
\* normalized tokens of document d, and no term is left with no posting; an
\* entry whose weight is 0 is there like any other.
C18_PostingIffOccurs ==
    IndexBuilt
        => /\ callOut.kind = "dict"
           /\ \A i \in 1..Len(callOut.items) :
                 callOut.items[i][1] \in IndexTerms /\ callOut.items[i][2] # <<>>
           /\ \A t \in IndexTerms : \A d \in {"1", "2", "3"} :
                 HasPosting(callOut, t, d) <=> t \in NormalizedTokens(d)

\* C18 witness: with use_idf a term of both documents of the corpus is posted
\* under both with weight 0.
C18_Witness ==
    /\ IndexBuilt
    /\ WmGet(callIn.document_weighting_method, "use_idf")
    /\ callOut.kind = "dict"
    /\ \E t \in NormalizedTokens("1") \cap NormalizedTokens("2") :
          /\ HasPosting(callOut, t, "1") /\ HasPosting(callOut, t, "2")
          /\ ZeroWeight(Get(Get(callOut.items, t), "1"))
          /\ ZeroWeight(Get(Get(callOut.items, t), "2"))



\* Documents of the corpus that have t among their normalized tokens
DocumentsWith(t) == {d \in {"1", "2"} : t \in NormalizedTokens(d)}

\* C30: in a build the document frequency of every weighted term is between 1
\* and the number N of documents: no call of calculate_tf_idf divides by
\* zero, and with use_idf every IDF factor is log2(N / df) with 1 <= df <= N,
\* which is not negative.
C30_DocumentFrequencyInRange ==
    IndexBuilt
        => /\ callOut.kind = "dict"
           /\ \A t \in IndexTerms : \A d \in {"1", "2"} :
                 HasPosting(callOut, t, d) =>
                    LET w == Get(Get(callOut.items, t), d)
                        N == Len(callIn.documents.items)
                        df == Cardinality(DocumentsWith(t))
                    IN  /\ 1 <= df /\ df <= N
                        /\ w.kind = "float"
                        /\ w.idf = IF WmGet(callIn.document_weighting_method, "use_idf")
                                   THEN Real(0, 1, N, df) ELSE One

\* C30 witness: with use_idf, a term of one of two documents has the IDF
\* log2(2 / 1) and a term of both has log2(2 / 2).
C30_Witness ==
    /\ IndexBuilt /\ callOut.kind = "dict"
    /\ WmGet(callIn.document_weighting_method, "use_idf")
    /\ \E t, u \in IndexTerms :
          /\ HasPosting(callOut, t, "1") /\ ~HasPosting(callOut, t, "2")
          /\ Get(Get(callOut.items, t), "1").idf = Real(0, 1, 2, 1)
          /\ HasPosting(callOut, u, "1") /\ HasPosting(callOut, u, "2")
          /\ Get(Get(callOut.items, u), "2").idf = Real(0, 1, 2, 2)

---------------------------------------------------------------------------
(* RetrievalService.calculate_similarity called on its own, with integer   *)
(* weights.                                                                *)

MaxWeight == 2    \* largest weight of a query term or of a posting

SimTerms == {"index", "system"}
SimDocs == {"1", "2", "3"}

\* documents posted under one term: not all of them
MaxPostings == Cardinality(SimDocs) - 1

\* Dicts with distinct keys from keys, in every order, with values from values
DictsOver(keys, values, maxLen) ==
    UNION {{d \in [1..n -> keys \X values] :
               \A i, j \in 1..n : d[i][1] = d[j][1] => i = j} :
           n \in 0..maxLen}

\* A query vector is a dict, or the coroutine object that
\* retrieve_document_single_query passes
QueryVectors ==
    {[kind |-> "dict", items |-> q] : q \in DictsOver(SimTerms, 0..MaxWeight, 2)}
        \cup {Coroutine("calculate_query_weight")}

PostingLists == DictsOver(SimDocs, 1..MaxWeight, MaxPostings)

\* document_vectors: each term absent, or present with its postings; the term
\* "document" is in no query vector
DocumentVectors ==
    {[kind |-> "dict", items |-> a \o b \o c] :
        a \in {<<>>} \cup {<< <<"index", p>> >> : p \in PostingLists},
        b \in {<<>>} \cup {<< <<"system", p>> >> : p \in PostingLists},
        c \in {<<>>, << <<"document", << <<"3", 1>> >> >> >>}}

SimilarityInputs ==
    {[fn |-> "calculate_similarity", query_vector |-> q, document_vectors |-> dv] :
        q \in QueryVectors, dv \in DocumentVectors}

CallSimilarity ==
    /\ callIn # None /\ callOut = None
    /\ callIn.fn = "calculate_similarity"
    /\ callOut' = calculate_similarity(callIn.query_vector, callIn.document_vectors)
    /\ UNCHANGED <<callIn, cacheVars, evalVars, batchVars, qeVars>>

InitSimilarity ==
    /\ docsFile = "docs" /\ RouterIdle /\ EvalIdle /\ BatchIdle /\ ExpansionIdle
    /\ callIn \in SimilarityInputs
    /\ callOut = None

NextSimilarity == CallSimilarity

SpecSimilarity == InitSimilarity /\ [][NextSimilarity]_vars

---------------------------------------------------------------------------
(* Properties of the ranking.                                              *)

SimilarityCalled ==
    /\ callIn # None /\ callIn.fn = "calculate_similarity" /\ callOut # None
    /\ callIn.query_vector.kind = "dict"

\* Document d is posted under term t, and t is in the query vector
Shares(t, d) ==
    /\ HasKey(callIn.query_vector.items, t)
    /\ HasKey(callIn.document_vectors.items, t)
    /\ HasKey(Get(callIn.document_vectors.items, t), d)

PostedTerms == SimTerms \cup {"document"}

Contribution(t, d) ==
    IF Shares(t, d)
    THEN Get(callIn.query_vector.items, t) * Get(Get(callIn.document_vectors.items, t), d)
    ELSE 0

\* C19: a document has a score exactly when it is posted under a term of the
\* query vector, its score is the sum of queryWeight * indexWeight over those
\* terms, and no other document is in the result.
C19_ScoreIsSumOverSharedTerms ==
    SimilarityCalled
        => /\ callOut.kind = "dict"
           /\ \A i \in 1..Len(callOut.items) : callOut.items[i][1] \in SimDocs
           /\ \A d \in SimDocs :
                 /\ HasKey(callOut.items, d) <=> \E t \in PostedTerms : Shares(t, d)
                 /\ HasKey(callOut.items, d) =>
                       Get(callOut.items, d) = Contribution("index", d)
                                               + Contribution("system", d)
                                               + Contribution("document", d)

\* C19 witness: one document scored by two shared terms, another posted only
\* under a term that the query lacks and absent from the result.
C19_Witness ==
    /\ SimilarityCalled
    /\ \E d, e \in SimDocs :
          /\ Shares("index", d) /\ Shares("system", d)
          /\ Contribution("index", d) > 0 /\ Contribution("system", d) > 0
          /\ Get(callOut.items, d) = Contribution("index", d) + Contribution("system", d)
          /\ \E t \in PostedTerms : /\ HasKey(callIn.document_vectors.items, t)
                                    /\ HasKey(Get(callIn.document_vectors.items, t), e)
          /\ ~HasKey(callOut.items, e)

\* Where document d is first accumulated: the place in the query vector of the
\* first term that posts it, and its place in the postings of that term
FirstAccumulated(d) ==
    LET q == callIn.query_vector.items
        i == CHOOSE i \in 1..Len(q) :
                 /\ Shares(q[i][1], d)
                 /\ \A j \in 1..(i - 1) : ~Shares(q[j][1], d)
        postings == Get(callIn.document_vectors.items, q[i][1])
        k == CHOOSE k \in 1..Len(postings) : postings[k][1] = d
    IN  <<i, k>>

Earlier(a, b) == a[1] < b[1] \/ (a[1] = b[1] /\ a[2] < b[2])

\* C20: in the result every score is at least the score after it, and of two
\* documents of equal score the one accumulated first comes first.
C20_DescendingAndStable ==
    SimilarityCalled
        => \A i, j \in 1..Len(callOut.items) :
              i < j =>
                 /\ callOut.items[i][2] >= callOut.items[j][2]
                 /\ callOut.items[i][2] = callOut.items[j][2] =>
                       Earlier(FirstAccumulated(callOut.items[i][1]),
                               FirstAccumulated(callOut.items[j][1]))

\* C20 witness: three documents ranked; the one accumulated last has the highest
\* score and comes first, the two others tie and keep their order, document 2
\* before document 1.
C20_Witness ==
    /\ SimilarityCalled
    /\ Len(callOut.items) = 3
    /\ callOut.items[1][1] = "3" /\ callOut.items[2][1] = "2" /\ callOut.items[3][1] = "1"
    /\ callOut.items[1][2] > callOut.items[2][2]
    /\ callOut.items[2][2] = callOut.items[3][2]
    /\ Earlier(FirstAccumulated("2"), FirstAccumulated("1"))
    /\ Earlier(FirstAccumulated("1"), FirstAccumulated("3"))



\* C24: a GET /inverted-file whose build fails (file missing, invalid JSON, or
\* an exception of the build) answers with an HTTP error and leaves
\* _cached_inverted_file, _cache_key and _inverted_file_cache as they were.
C24_FailedBuildLeavesCaches ==
    [][lastOp'.op = "get_error"
          => /\ out'.kind = "http" /\ out'.status \in {404, 500}
             /\ CacheState' = CacheState]_vars

\* C24 witness: a request failed with 404 while an entry of another key was
\* stored; the entry is still there, for cache hits and for /retrieve.
C24_Witness ==
    /\ lastOp.op = "get_error" /\ out.status = 404
    /\ _cached_inverted_file # None /\ _cache_key # CacheKeyOf(lastOp.req)
    /\ CacheHit(_cache_key) /\ ~CacheUnavailable

\* C25: the two caches agree in every state: both are empty, or both hold the
\* same index, the one built from the corpus under the parameters that
\* _cache_key encodes and that _inverted_file_cache records.
C25_CachesAgree ==
    \/ /\ _cached_inverted_file = None /\ _cache_key = NoKey
       /\ ~_inverted_file_cache.is_cached
       /\ _inverted_file_cache.inverted_file = None
       /\ _inverted_file_cache.parameters = None
    \/ /\ _cached_inverted_file # None /\ _inverted_file_cache.is_cached
       /\ _inverted_file_cache.inverted_file = _cached_inverted_file.inverted_file
       /\ _inverted_file_cache.parameters = _cached_inverted_file.parameters
       /\ \E p \in ParamChoices :
             /\ _cache_key = CacheKeyOf(p)
             /\ _inverted_file_cache.parameters = ParametersOf(p)
             /\ _inverted_file_cache.inverted_file.items
                   = create_inverted_file(DocsOnDisk("docs"), p.use_stemming,
                         p.use_stopword_removal, WeightingMethodOf(p)).items

\* C25 witness: a build ended and stored its index in both caches while
\* another handler was still building under another key.
C25_Witness ==
    /\ lastOp.op = "get_store"
    /\ \E g \in Handlers : pc[g] = "building" /\ CacheKeyOf(hreq[g]) # _cache_key
    /\ _cached_inverted_file # None /\ _inverted_file_cache.is_cached
    /\ _inverted_file_cache.inverted_file = _cached_inverted_file.inverted_file
    /\ _cached_inverted_file.inverted_file.oid = lastOp.h

---------------------------------------------------------------------------
(* RetrievalService.calculate_query_weight called on its own.  The query   *)
(* is the token list tokenize makes of it.  A weight is kept as its        *)
(* factors: tf and idf are numbers rat + ln(a / b), and normalized tells   *)
(* whether the product was divided by the L2 norm of the vector.           *)

MaxQueryLen == 3    \* tokens of a query

RealLn(num, den, a, b) == [rat |-> <<num, den>>, ln |-> <<a, b>>]

\* r > 0, for r = rat + ln(a / b) with rat >= 0 and a >= b
Positive(r) == r.rat[1] > 0 \/ r.ln[1] > r.ln[2]

\* A TF that tests tf_binary before tf_augmented
get_tf_weight_binary_first(weighting_method, tf, max_tf) ==
    IF WmGet(weighting_method, "tf_raw") THEN RealLn(tf, 1, 1, 1)
    ELSE IF WmGet(weighting_method, "tf_binary")
         THEN IF tf > 0 THEN RealLn(1, 1, 1, 1) ELSE RealLn(0, 1, 1, 1)
    ELSE IF WmGet(weighting_method, "tf_augmented")
         THEN RealLn(max_tf + tf, 2 * max_tf, 1, 1)
    ELSE IF WmGet(weighting_method, "tf_logarithmic")
         THEN IF tf > 0 THEN RealLn(1, 1, tf, 1) ELSE RealLn(0, 1, 1, 1)
    ELSE RealLn(tf, 1, 1, 1)

\* retrieval_service.py:160-169
get_tf_weight(weighting_method, tf, max_tf) ==
    IF WmGet(weighting_method, "tf_raw") THEN RealLn(tf, 1, 1, 1)
    ELSE IF WmGet(weighting_method, "tf_augmented")
         THEN RealLn(max_tf + tf, 2 * max_tf, 1, 1)
    ELSE IF WmGet(weighting_method, "tf_binary")
         THEN IF tf > 0 THEN RealLn(1, 1, 1, 1) ELSE RealLn(0, 1, 1, 1)
    ELSE IF WmGet(weighting_method, "tf_logarithmic")
         THEN IF tf > 0 THEN RealLn(1, 1, tf, 1) ELSE RealLn(0, 1, 1, 1)
    ELSE RealLn(tf, 1, 1, 1)

KeysAsSet(d) == {d[j][1] : j \in 1..Len(d)}

\* retrieval_service.py:172-181  the loop over term_freq.items()
RECURSIVE WeighQueryTerms(_, _, _, _, _, _)
WeighQueryTerms(term_freq, max_tf, N, weighting_method, inverted_file, query_vector) ==
    IF term_freq = <<>> THEN query_vector
    ELSE LET term == Head(term_freq)[1]
             tf_weight == get_tf_weight(weighting_method, Head(term_freq)[2], max_tf)
             df == IF HasKey(inverted_file, term) THEN Len(Get(inverted_file, term)) ELSE 0
             idf == IF df > 0 THEN RealLn(0, 1, N, df) ELSE RealLn(0, 1, 1, 1)
             used == IF WmGet(weighting_method, "use_idf") THEN idf ELSE RealLn(1, 1, 1, 1)
             weight == [tf |-> tf_weight, idf |-> used, normalized |-> FALSE]
         IN  WeighQueryTerms(Tail(term_freq), max_tf, N, weighting_method, inverted_file,
                 IF Positive(tf_weight) /\ Positive(used)
                 THEN Put(query_vector, term, weight) ELSE query_vector)

\* retrieval_service.py:147-188
calculate_query_weight(query, weighting_method, inverted_file) ==
    LET term_freq == Counter(query)
        max_tf == IF term_freq # <<>> THEN MaxSeq(ValuesOf(term_freq)) ELSE 1
        N == Cardinality(UNION {KeysAsSet(inverted_file.items[i][2]) :
                                    i \in 1..Len(inverted_file.items)})
        query_vector == WeighQueryTerms(term_freq, max_tf, N, weighting_method,
                                        inverted_file.items, <<>>)
    IN  [kind |-> "dict",
         items |-> IF WmGet(weighting_method, "use_normalization")
                   THEN [i \in 1..Len(query_vector) |->
                            <<query_vector[i][1],
                              [query_vector[i][2] EXCEPT !.normalized = TRUE]>>]
                   ELSE query_vector]

QueryTexts == UNION {[1..n -> {"index", "system"}] : n \in 0..MaxQueryLen}

\* weighting_method on the query side: every combination of the six flags it
\* reads, and dicts that leave flags out
QueryWeightingMethods ==
    [tf_raw : BOOLEAN, tf_augmented : BOOLEAN, tf_binary : BOOLEAN,
     tf_logarithmic : BOOLEAN, use_idf : BOOLEAN, use_normalization : BOOLEAN]
        \cup {[tf_binary |-> FALSE], [tf_logarithmic |-> TRUE], [tf_log |-> TRUE]}

\* inverted_file: empty; one term posted once; two terms, one of them in every
\* document; a term with no posting
QueryIndexes ==
    {[kind |-> "dict", items |-> it] :
        it \in {<<>>,
                << <<"index", << <<"1", 1>> >> >> >>,
                << <<"index", << <<"1", 1>> >> >>, <<"system", << <<"1", 1>>, <<"2", 1>> >> >> >>,
                << <<"index", <<>> >> >>}}

CallQueryWeight ==
    /\ callIn # None /\ callOut = None
    /\ callIn.fn = "calculate_query_weight"
    /\ callOut' = calculate_query_weight(callIn.query, callIn.weighting_method,
                                         callIn.inverted_file)
    /\ UNCHANGED <<callIn, cacheVars, evalVars, batchVars, qeVars>>

InitQueryWeight ==
    /\ docsFile = "docs" /\ RouterIdle /\ EvalIdle /\ BatchIdle /\ ExpansionIdle
    /\ callIn \in {[fn |-> "calculate_query_weight", query |-> q,
                    weighting_method |-> wm, inverted_file |-> ix] :
                      q \in QueryTexts, wm \in QueryWeightingMethods, ix \in QueryIndexes}
    /\ callOut = None

NextQueryWeight == CallQueryWeight

SpecQueryWeight == InitQueryWeight /\ [][NextQueryWeight]_vars

---------------------------------------------------------------------------
(* Properties of the query-side weighting.                                 *)

QueryWeightCalled ==
    callIn # None /\ callIn.fn = "calculate_query_weight" /\ callOut # None

\* Occurrences of term t in the query
QueryFrequency(t) == Cardinality({i \in 1..Len(callIn.query) : callIn.query[i] = t})

MaxQueryFrequency ==
    LET fs == {QueryFrequency(t) : t \in {"index", "system"}}
    IN  CHOOSE m \in fs : \A n \in fs : n <= m

\* The TF variant of a query-side flag, tf_logarithmic being 1 + ln(f)
QueryVariantValue(flag, f, m) ==
    VariantValue(IF flag = "tf_logarithmic" THEN "tf_log" ELSE flag, f, m)

\* Every term of the query vector has the TF of the first true flag of the
\* precedence
QueryTfFollows(precedence) ==
    \A i \in 1..Len(callOut.items) :
        LET t == callOut.items[i][1]
            tf == callOut.items[i][2].tf
            v == QueryVariantValue(FirstTrueFlag(precedence, callIn.weighting_method),
                                   QueryFrequency(t), MaxQueryFrequency)
        IN  Rat(tf.rat[1], tf.rat[2]) = v[1] /\ tf.ln[1] = v[2] * tf.ln[2]

\* C22 as stated: the query-side TF is the variant of the first true flag in
\* the order raw, logarithmic, binary, augmented.
C22_QueryTfPrecedenceAsStated ==
    QueryWeightCalled
        => QueryTfFollows(<<"tf_raw", "tf_logarithmic", "tf_binary", "tf_augmented">>)

\* C22 amended: the query-side TF is the variant of the first true flag in the
\* order raw, augmented, binary, logarithmic, and the raw frequency when none
\* is true.
C22_QueryTfPrecedenceAsCoded ==
    QueryWeightCalled
        => /\ callOut.kind = "dict"
           /\ QueryTfFollows(<<"tf_raw", "tf_augmented", "tf_binary", "tf_logarithmic">>)

\* C22 witness: tf_augmented, tf_binary and tf_logarithmic all set, tf_raw not;
\* the term occurring once in a query whose other term occurs twice gets the
\* augmented TF 3/4, neither 1 nor 1 + ln(1).
C22_Witness ==
    /\ QueryWeightCalled
    /\ ~WmGet(callIn.weighting_method, "tf_raw")
    /\ WmGet(callIn.weighting_method, "tf_augmented")
    /\ WmGet(callIn.weighting_method, "tf_binary")
    /\ WmGet(callIn.weighting_method, "tf_logarithmic")
    /\ QueryFrequency("index") = 1 /\ QueryFrequency("system") = 2
    /\ HasKey(callOut.items, "index")
    /\ Get(callOut.items, "index").tf = RealLn(3, 4, 1, 1)


====
